---- MODULE Spec2Model ----
(***************************************************************************)
(* Freight calculator: the pricing rule model, the tier resolver, the      *)
(* single-order calculator and the batch aggregator (lib/calculator.ts,    *)
(* lib/types.ts), and the rule list with its editor (RuleManagement,       *)
(* RuleEditor, lib/storage.ts).                                            *)
(*                                                                         *)
(* Units.  Weights are held in tenths of a kilogram, so 0.5 kg is 5 and    *)
(* 4.1 kg is 41; Kg(n) is n whole kilograms in that unit.  The results of  *)
(* Math.ceil are whole numbers of kilograms.  Prices are integers.         *)
(* A ProvincePriceMap is a function whose DOMAIN is the set of configured  *)
(* provinces: map[p] === undefined is  p \notin DOMAIN map.                *)
(* Province names are written in Latin letters: "Beijing" is '北京',       *)
(* "Shanghai" is '上海'.                                                   *)
(***************************************************************************)
EXTENDS Integers, Sequences, FiniteSets, TLC

VARIABLES rule, call, rules, now, editor, saved,
          file, local, server, reply, durable, requests, responses, shell

vars == <<rule, call, rules, now, editor, saved,
          file, local, server, reply, durable, requests, responses, shell>>

(* the rules file, localStorage, the backend, the storage client's last    *)
(* return, the rules added and not deleted, and the traffic between them   *)
storeVars == <<file, local, server, reply, durable, requests, responses>>

(* the rule list, the clock, the rule editor and what it last emitted *)
editorVars == <<rules, now, editor, saved>>

----------------------------------------------------------------------------
(* Bounds of the model *)

MaxTiers == 2
MaxOrders == 3
MaxRules == 1
MaxTime == 3
MaxEditorTiers == 4
MaxStored == 2
MaxRows == 2

----------------------------------------------------------------------------
(* lib/types.ts *)

(* Two of the 31 members of PROVINCES *)
PROVINCES == {"Beijing", "Shanghai"}

(* Order weights: 0.1, 0.5, 0.7, 1, 1.1, 2, 3, 3.1 and 4.1 kg *)
Weights == {1, 5, 7, 10, 11, 20, 30, 31, 41}

(* maxWeight of a tier: 0.5, 1 and 2 kg *)
TierCeilings == {5, 10, 20}

(* firstWeightThreshold: 0.5 kg, 1 kg and 3 kg (the editor's default) *)
Thresholds == {5, 10, 30}

(* A ProvincePriceMap: Beijing unset (b = {}) or set to the element of b,  *)
(* Shanghai unset (s = {}) or set to the element of s.                     *)
PriceTable(b, s) ==
    [p \in (IF b = {} THEN {} ELSE {"Beijing"}) \cup (IF s = {} THEN {} ELSE {"Shanghai"})
        |-> IF p = "Beijing" THEN CHOOSE x \in b : TRUE ELSE CHOOSE x \in s : TRUE]

(* Beijing: unset, a configured 0, a configured price.  Shanghai: every    *)
(* table of the rule unset, or every table set.                            *)
PriceChoices == {{}, {0}, {2}}
AreaChoices == {{}, {0}, {1}}
ShanghaiChoices == {{}, {3}}

WeightTier(maxWeight, b, s) == [maxWeight |-> maxWeight, prices |-> PriceTable(b, s)]

Tiers(s) == {WeightTier(m, b, s) : m \in TierCeilings, b \in PriceChoices}

(* every list of 1..MaxTiers tiers, in any order, equal ceilings included *)
TierLists(s) == UNION {[1..k -> Tiers(s)] : k \in 1..MaxTiers}

(* an unsorted list whose lowest tier has no Beijing price *)
UnsortedTiers(s) == <<WeightTier(20, {2}, s), WeightTier(5, {}, s)>>

Mode1Base(threshold, step, first, over, cont, area, s) ==
    [ type |-> "mode1",
      name |-> "first+continued",
      firstWeightThreshold |-> threshold,
      useStepPricing |-> step,
      firstWeightPrices |-> PriceTable(first, s),
      overweightFirstPrices |-> PriceTable(over, s),
      continuedWeightPrices |-> PriceTable(cont, s),
      areaCharges |-> PriceTable(area, s) ]

WithTiers(r, tiers) == [weightTiers |-> tiers] @@ r

(* mode1 rules over every combination of the Beijing entries of the four   *)
(* tables, with weightTiers undefined, empty or UnsortedTiers              *)
Mode1TableRules ==
    LET base == {Mode1Base(t, u, f, o, c, a, s) :
                    t \in Thresholds, u \in BOOLEAN, f \in PriceChoices,
                    o \in PriceChoices, c \in PriceChoices, a \in AreaChoices,
                    s \in ShanghaiChoices}
    IN base
       \cup {WithTiers(r, <<>>) : r \in base}
       \cup {WithTiers(r, UnsortedTiers(IF "Shanghai" \in DOMAIN r.areaCharges
                                         THEN {3} ELSE {})) : r \in base}

(* step-priced mode1 rules over every tier list *)
Mode1TierRules ==
    UNION {{WithTiers(Mode1Base(t, TRUE, {2}, {2}, {2}, {1}, s), tiers) :
                t \in Thresholds, tiers \in TierLists(s)} : s \in ShanghaiChoices}

Mode2Rules ==
    {[ type |-> "mode2",
       name |-> "fixed+rate",
       fixedPrices |-> PriceTable(f, s),
       weightRates |-> PriceTable(w, s),
       areaCharges |-> PriceTable(a, s) ] :
        f \in PriceChoices, w \in PriceChoices, a \in AreaChoices, s \in ShanghaiChoices}

Rules == Mode1TableRules \cup Mode1TierRules \cup Mode2Rules

(* the rules batches are run with: 3 kg threshold, UnsortedTiers *)
BatchRules ==
    {r \in Mode1TableRules :
        /\ r.firstWeightThreshold = 30
        /\ "weightTiers" \in DOMAIN r
        /\ r.weightTiers # <<>>}
    \cup Mode2Rules

(* QuickQuery: one order typed in by the user *)
QueryOrders ==
    {[waybillNo |-> "QUERY", destination |-> d, weight |-> w] :
        d \in PROVINCES, w \in Weights}

(* BatchCalculator: the orders of an imported file *)
BatchOrders ==
    { [waybillNo |-> "W1", destination |-> "Beijing", weight |-> 5],
      [waybillNo |-> "W2", destination |-> "Shanghai", weight |-> 20],
      [waybillNo |-> "W3", destination |-> "Beijing", weight |-> 41] }

OrderLists == UNION {[1..k -> BatchOrders] : k \in 0..MaxOrders}

----------------------------------------------------------------------------
(* lib/calculator.ts *)

Kg(n) == n * 10

(* Math.ceil and Math.floor of a weight in tenths of a kg, in whole kg *)
MathCeil(tenths) == -((-tenths) \div 10)

MathFloor(tenths) == tenths \div 10

ceilWeight_floor(weight) == MathFloor(weight)

ceilWeight(weight) == MathCeil(weight)

(* number | null *)
Null == [null |-> TRUE, value |-> 0]
Num(n) == [null |-> FALSE, value |-> n]

(* prices[province] ?? null *)
tierPrice_zero(tier, province) ==
    IF province \in DOMAIN tier.prices THEN Num(tier.prices[province]) ELSE Num(0)

tierPrice_falsy(tier, province) ==
    IF province \in DOMAIN tier.prices /\ tier.prices[province] # 0
    THEN Num(tier.prices[province]) ELSE Null

tierPrice(tier, province) ==
    IF province \in DOMAIN tier.prices THEN Num(tier.prices[province]) ELSE Null

(* Array.prototype.sort with the comparator a.maxWeight - b.maxWeight: a   *)
(* stable sort, ascending by maxWeight, of a copy of the list.             *)
InsertTier(sorted, t) ==
    LET k == Cardinality({i \in 1..Len(sorted) : sorted[i].maxWeight <= t.maxWeight})
    IN SubSeq(sorted, 1, k) \o <<t>> \o SubSeq(sorted, k + 1, Len(sorted))

RECURSIVE SortByMaxWeight(_)
SortByMaxWeight(tiers) ==
    IF tiers = <<>> THEN <<>>
    ELSE InsertTier(SortByMaxWeight(SubSeq(tiers, 1, Len(tiers) - 1)), tiers[Len(tiers)])

sortedTiers_unsorted(tiers) == tiers

sortedTiers(tiers) == SortByMaxWeight(tiers)

lastTierPrice_null(sorted, province) == Null

lastTierPrice(sorted, province) ==
    IF Len(sorted) > 0
    THEN tierPrice(sorted[Len(sorted)], province)
    ELSE Null

getStepPrice(weight, tiers, province) ==
    LET sorted == sortedTiers(tiers)
        reached == {i \in 1..Len(sorted) : weight <= sorted[i].maxWeight}
    IN IF reached # {}
       THEN tierPrice(sorted[CHOOSE i \in reached : \A j \in reached : i <= j], province)
       ELSE lastTierPrice(sorted, province)

(* The error strings, `省份 ${destination} 未配置...`: the destination and  *)
(* the name of the missing configuration.  A result without error has the  *)
(* field undefined (NoError), which is falsy; every message is truthy.     *)
NoError == <<>>
ErrStepPrice == "no step price configured"
ErrFirstPrice == "no first-weight price configured"
ErrOverweightFirstPrice == "no overweight first-weight price configured"
ErrContinuedPrice == "no continued-weight price configured"
ErrFixedPrice == "no fixed price configured"
ErrWeightRate == "no weight rate configured"
ErrorMessage(destination, missing) == <<"province", destination, missing>>

Truthy(error) == error # NoError

(* map[destination] ?? 0 *)
areaChargeOf_ignored(r, destination) == 0

areaChargeOf(r, destination) ==
    IF destination \in DOMAIN r.areaCharges THEN r.areaCharges[destination] ELSE 0

(* the error return: price 0 and a zero breakdown *)
errorResult_keepArea(r, order, weight, missing) ==
    [ waybillNo |-> order.waybillNo,
      destination |-> order.destination,
      weight |-> weight,
      originalWeight |-> order.weight,
      price |-> areaChargeOf(r, order.destination),
      breakdown |-> [baseFee |-> 0, continuedFee |-> 0,
                     areaCharge |-> areaChargeOf(r, order.destination)],
      error |-> ErrorMessage(order.destination, missing) ]

errorResult(r, order, weight, missing) ==
    [ waybillNo |-> order.waybillNo,
      destination |-> order.destination,
      weight |-> weight,
      originalWeight |-> order.weight,
      price |-> 0,
      breakdown |-> [baseFee |-> 0, continuedFee |-> 0, areaCharge |-> 0],
      error |-> ErrorMessage(order.destination, missing) ]

(* the final return of calculateMode1 *)
mode1Result_noArea(order, billingWeight, baseFee, continuedFee, areaCharge) ==
    [ waybillNo |-> order.waybillNo,
      destination |-> order.destination,
      weight |-> billingWeight,
      originalWeight |-> order.weight,
      price |-> baseFee + continuedFee,
      breakdown |-> [baseFee |-> baseFee, continuedFee |-> continuedFee,
                     areaCharge |-> areaCharge],
      error |-> NoError ]

mode1Result(order, billingWeight, baseFee, continuedFee, areaCharge) ==
    [ waybillNo |-> order.waybillNo,
      destination |-> order.destination,
      weight |-> billingWeight,
      originalWeight |-> order.weight,
      price |-> baseFee + continuedFee + areaCharge,
      breakdown |-> [baseFee |-> baseFee, continuedFee |-> continuedFee,
                     areaCharge |-> areaCharge],
      error |-> NoError ]

(* originalWeight <= rule.firstWeightThreshold *)
atOrUnderThreshold_strict(r, originalWeight) == originalWeight < r.firstWeightThreshold

atOrUnderThreshold(r, originalWeight) == originalWeight <= r.firstWeightThreshold

(* rule.useStepPricing && rule.weightTiers && rule.weightTiers.length > 0 *)
usesTiers_anyLength(r) ==
    /\ r.useStepPricing
    /\ "weightTiers" \in DOMAIN r

usesTiers_ignoreFlag(r) ==
    /\ "weightTiers" \in DOMAIN r
    /\ Len(r.weightTiers) > 0

usesTiers(r) ==
    /\ r.useStepPricing
    /\ "weightTiers" \in DOMAIN r
    /\ Len(r.weightTiers) > 0

(* Math.ceil(originalWeight - 1), in whole kg *)
continuedWeight_whole(originalWeight) == MathCeil(originalWeight)

continuedWeight(originalWeight) == MathCeil(originalWeight - Kg(1))

(* the two checks of the over-threshold regime, in the order of the code:  *)
(* the name of the first missing configuration, or NothingMissing          *)
NothingMissing == ""

overweightMissing_continuedFirst(r, destination) ==
    IF destination \notin DOMAIN r.continuedWeightPrices
    THEN ErrContinuedPrice
    ELSE IF ~("overweightFirstPrices" \in DOMAIN r
              /\ destination \in DOMAIN r.overweightFirstPrices)
         THEN ErrOverweightFirstPrice
         ELSE NothingMissing

overweightMissing_firstPriceRequired(r, destination) ==
    IF destination \notin DOMAIN r.firstWeightPrices
    THEN ErrFirstPrice
    ELSE IF ~("overweightFirstPrices" \in DOMAIN r
              /\ destination \in DOMAIN r.overweightFirstPrices)
         THEN ErrOverweightFirstPrice
         ELSE IF destination \notin DOMAIN r.continuedWeightPrices
              THEN ErrContinuedPrice
              ELSE NothingMissing

overweightMissing(r, destination) ==
    IF ~("overweightFirstPrices" \in DOMAIN r
         /\ destination \in DOMAIN r.overweightFirstPrices)
    THEN ErrOverweightFirstPrice
    ELSE IF destination \notin DOMAIN r.continuedWeightPrices
         THEN ErrContinuedPrice
         ELSE NothingMissing

(* Property lookup on a plain object.  The price tables are object         *)
(* literals or JSON.parse results, so map[key] for a key that is no own    *)
(* property but a member of Object.prototype is that member (the function  *)
(* Object for 'constructor'): neither undefined nor null, and not a        *)
(* number.  No province is such a key.                                     *)
ObjectPrototypeKeys == {"constructor"}

InheritedMember == "function Object() { [native code] }"

(* calculateMode1 when every lookup by destination yields InheritedMember: *)
(* no === undefined test and no ?? applies, so no error return is taken;   *)
(* + concatenates strings and * gives NaN.                                 *)
mode1Inherited(r, order) ==
    IF atOrUnderThreshold(r, order.weight)
    THEN [ waybillNo |-> order.waybillNo,
           destination |-> order.destination,
           weight |-> order.weight,
           originalWeight |-> order.weight,
           price |-> "function Object() { [native code] }0function Object() { [native code] }",
           breakdown |-> [baseFee |-> InheritedMember, continuedFee |-> "0",
                          areaCharge |-> InheritedMember],
           error |-> NoError ]
    ELSE [ waybillNo |-> order.waybillNo,
           destination |-> order.destination,
           weight |-> Kg(1 + continuedWeight(order.weight)),
           originalWeight |-> order.weight,
           price |-> "function Object() { [native code] }NaNfunction Object() { [native code] }",
           breakdown |-> [baseFee |-> InheritedMember, continuedFee |-> "NaN",
                          areaCharge |-> InheritedMember],
           error |-> NoError ]

calculateMode1(r, order) ==
    LET destination == order.destination
        originalWeight == order.weight
        areaCharge == areaChargeOf(r, destination)
    IN IF destination \in ObjectPrototypeKeys
       THEN mode1Inherited(r, order)
       ELSE
       IF atOrUnderThreshold(r, originalWeight)
       THEN LET billingWeight == originalWeight
            IN IF usesTiers(r)
               THEN LET stepPrice == getStepPrice(originalWeight, r.weightTiers, destination)
                    IN IF stepPrice.null
                       THEN errorResult(r, order, billingWeight, ErrStepPrice)
                       ELSE mode1Result(order, billingWeight, stepPrice.value, 0, areaCharge)
               ELSE IF destination \notin DOMAIN r.firstWeightPrices
                    THEN errorResult(r, order, billingWeight, ErrFirstPrice)
                    ELSE mode1Result(order, billingWeight,
                                     r.firstWeightPrices[destination], 0, areaCharge)
       ELSE LET missing == overweightMissing(r, destination)
            IN IF missing # NothingMissing
               THEN errorResult(r, order, originalWeight, missing)
               ELSE LET kg == continuedWeight(originalWeight)
                    IN mode1Result(order, Kg(1 + kg),
                                   r.overweightFirstPrices[destination],
                                   kg * r.continuedWeightPrices[destination],
                                   areaCharge)

(* the final return of calculateMode2 *)
mode2Result_noArea(order, weight, fixedPrice, weightRate, areaCharge) ==
    [ waybillNo |-> order.waybillNo,
      destination |-> order.destination,
      weight |-> Kg(weight),
      originalWeight |-> order.weight,
      price |-> fixedPrice + weight * weightRate,
      breakdown |-> [baseFee |-> fixedPrice, continuedFee |-> weight * weightRate,
                     areaCharge |-> areaCharge],
      error |-> NoError ]

mode2Result(order, weight, fixedPrice, weightRate, areaCharge) ==
    [ waybillNo |-> order.waybillNo,
      destination |-> order.destination,
      weight |-> Kg(weight),
      originalWeight |-> order.weight,
      price |-> fixedPrice + weight * weightRate + areaCharge,
      breakdown |-> [baseFee |-> fixedPrice, continuedFee |-> weight * weightRate,
                     areaCharge |-> areaCharge],
      error |-> NoError ]

(* the two checks of calculateMode2, in the order of the code *)
mode2Missing_rateFirst(r, destination) ==
    IF destination \notin DOMAIN r.weightRates
    THEN ErrWeightRate
    ELSE IF destination \notin DOMAIN r.fixedPrices
         THEN ErrFixedPrice
         ELSE NothingMissing

mode2Missing(r, destination) ==
    IF destination \notin DOMAIN r.fixedPrices
    THEN ErrFixedPrice
    ELSE IF destination \notin DOMAIN r.weightRates
         THEN ErrWeightRate
         ELSE NothingMissing

(* calculateMode2 when every lookup by destination yields InheritedMember *)
mode2Inherited(r, order) ==
    [ waybillNo |-> order.waybillNo,
      destination |-> order.destination,
      weight |-> Kg(ceilWeight(order.weight)),
      originalWeight |-> order.weight,
      price |-> "function Object() { [native code] }NaNfunction Object() { [native code] }",
      breakdown |-> [baseFee |-> InheritedMember, continuedFee |-> "NaN",
                     areaCharge |-> InheritedMember],
      error |-> NoError ]

calculateMode2(r, order) ==
    LET destination == order.destination
        weight == ceilWeight(order.weight)
        areaCharge == areaChargeOf(r, destination)
        missing == mode2Missing(r, destination)
    IN IF destination \in ObjectPrototypeKeys
       THEN mode2Inherited(r, order)
       ELSE
       IF missing # NothingMissing
       THEN errorResult(r, order, Kg(weight), missing)
       ELSE mode2Result(order, weight, r.fixedPrices[destination],
                        r.weightRates[destination], areaCharge)

(* What a call leaves in its arguments.  getStepPrice sorts [...tiers], a  *)
(* copy, so the caller's list keeps its order; nothing else is assigned.   *)
tiersAfterGetStepPrice_inPlace(tiers) == SortByMaxWeight(tiers)

tiersAfterGetStepPrice(tiers) == tiers

ruleAfterFreight(r, order) ==
    IF r.type = "mode1" /\ atOrUnderThreshold(r, order.weight) /\ usesTiers(r)
    THEN [r EXCEPT !.weightTiers = tiersAfterGetStepPrice(@)]
    ELSE r

RECURSIVE ruleAfterBatch(_, _)
ruleAfterBatch(r, orders) ==
    IF orders = <<>> THEN r
    ELSE ruleAfterFreight(ruleAfterBatch(r, SubSeq(orders, 1, Len(orders) - 1)),
                          orders[Len(orders)])

calculateFreight(r, order) ==
    IF r.type = "mode1" THEN calculateMode1(r, order) ELSE calculateMode2(r, order)

(* Array.prototype.map, filter and reduce, left to right *)
(* sum + r.price adds numbers; once an operand is a string, + concatenates *)
(* and the total is the string made of the pieces in order (kept as the    *)
(* sequence of the pieces, a number standing for its decimal rendering).   *)
(* A price is a string exactly when it was built from inherited members.   *)
RECURSIVE SumPrice(_)
SumPrice(results) ==
    IF results = <<>> THEN 0
    ELSE LET before == SubSeq(results, 1, Len(results) - 1)
             last == results[Len(results)]
             isNumber(res) == res.destination \notin ObjectPrototypeKeys
         IN IF \A i \in 1..Len(before) : isNumber(before[i])
            THEN IF isNumber(last)
                 THEN SumPrice(before) + last.price
                 ELSE <<SumPrice(before), last.price>>
            ELSE Append(SumPrice(before), last.price)

successResults_priced(results) == SelectSeq(results, LAMBDA res : res.price > 0)

successResults(results) == SelectSeq(results, LAMBDA res : ~Truthy(res.error))

errorResults(results) == SelectSeq(results, LAMBDA res : Truthy(res.error))

(* orders.map(order => calculateFreight(rule, order)) *)
RECURSIVE mapOrders_stopAtError(_, _)
mapOrders_stopAtError(r, orders) ==
    IF orders = <<>> THEN <<>>
    ELSE LET before == mapOrders_stopAtError(r, SubSeq(orders, 1, Len(orders) - 1))
         IN IF \E i \in 1..Len(before) : Truthy(before[i].error)
            THEN before
            ELSE Append(before, calculateFreight(r, orders[Len(orders)]))

mapOrders(r, orders) == [i \in 1..Len(orders) |-> calculateFreight(r, orders[i])]

calculateBatch(r, orders) ==
    LET results == mapOrders(r, orders)
    IN [ ruleName |-> r.name,
         totalOrders |-> Len(orders),
         successCount |-> Len(successResults(results)),
         errorCount |-> Len(errorResults(results)),
         totalPrice |-> SumPrice(successResults(results)),
         results |-> results ]

----------------------------------------------------------------------------
(* The rule list and the rule editor (RuleManagement, RuleEditor,          *)
(* lib/storage.ts).  A string typed into the name field is the sequence of *)
(* its characters.  A saved rule is held by its base data: id, type, name, *)
(* createdAt, updatedAt.                                                   *)

Undefined == [undefined |-> TRUE]

(* what can be typed into the name field: nothing, blanks, names with and  *)
(* without blanks around them                                              *)
Names == {<<>>, <<" ", " ">>, <<"A">>, <<" ", "B", " ">>}

RuleTypes == {"mode1", "mode2"}

(* Math.random().toString(36).substr(2, 9) *)
RandomSuffixes == {"x", "y"}

RECURSIVE TrimStart(_)
TrimStart(str) ==
    IF str # <<>> /\ Head(str) = " " THEN TrimStart(Tail(str)) ELSE str

RECURSIVE TrimEnd(_)
TrimEnd(str) ==
    IF str # <<>> /\ str[Len(str)] = " "
    THEN TrimEnd(SubSeq(str, 1, Len(str) - 1))
    ELSE str

(* String.prototype.trim *)
Trim(str) == TrimEnd(TrimStart(str))

(* `rule_${Date.now()}_${random}`: never the empty string *)
generateId(time, random) == [prefix |-> "rule", time |-> time, random |-> random]

(* rule?.id || generateId() *)
idOf(editing, time, random) ==
    IF editing # Undefined THEN editing.id ELSE generateId(time, random)

(* rule?.createdAt || now *)
createdAtOf_now(editing, time) == time

createdAtOf(editing, time) ==
    IF editing # Undefined /\ editing.createdAt # 0 THEN editing.createdAt ELSE time

(* PROVINCES.forEach(p => { prices[p] = 0; }) *)
emptyProvincePrices == [p \in PROVINCES |-> 0]

(* tiers up to 0.5, 1, 2 and 3 kg *)
defaultWeightTiers ==
    << [maxWeight |-> 5, prices |-> emptyProvincePrices],
       [maxWeight |-> 10, prices |-> emptyProvincePrices],
       [maxWeight |-> 20, prices |-> emptyProvincePrices],
       [maxWeight |-> 30, prices |-> emptyProvincePrices] >>

(* useState initial values of useStepPricing and weightTiers *)
initialUseStepPricing(editing) ==
    IF editing # Undefined /\ editing.type = "mode1" THEN editing.useStepPricing ELSE TRUE

initialWeightTiers(editing) ==
    IF /\ editing # Undefined
       /\ editing.type = "mode1"
       /\ "weightTiers" \in DOMAIN editing
       /\ Len(editing.weightTiers) > 0
    THEN editing.weightTiers
    ELSE defaultWeightTiers

(* addTier: one more tier, 1 kg above the last *)
tiersAfterAdd(tiers) ==
    LET lastWeight == IF Len(tiers) > 0 THEN tiers[Len(tiers)].maxWeight ELSE 0
    IN Append(tiers, [maxWeight |-> lastWeight + Kg(1), prices |-> emptyProvincePrices])

(* removeTier: nothing when one tier is left, else the list without the    *)
(* tier at index (from 1)                                                  *)
tiersAfterRemove_unguarded(tiers, index) ==
    SubSeq(tiers, 1, index - 1) \o SubSeq(tiers, index + 1, Len(tiers))

tiersAfterRemove(tiers, index) ==
    IF Len(tiers) <= 1
    THEN tiers
    ELSE SubSeq(tiers, 1, index - 1) \o SubSeq(tiers, index + 1, Len(tiers))

(* the rule handleSave passes to onSave: a mode1 rule carries             *)
(* useStepPricing, and weightTiers (sorted) only when useStepPricing       *)
baseData(ed, time, random) ==
    [ id |-> idOf(ed.rule, time, random),
      type |-> ed.ruleType,
      name |-> Trim(ed.name),
      createdAt |-> createdAtOf(ed.rule, time),
      updatedAt |-> time ]

(* the base data of a rule, Undefined for none *)
baseDataOf(r) ==
    IF r = Undefined THEN Undefined
    ELSE [f \in {"id", "type", "name", "createdAt", "updatedAt"} |-> r[f]]

ruleToSave(ed, time, random) ==
    IF ed.ruleType = "mode1"
    THEN IF ed.useStepPricing
         THEN [useStepPricing |-> TRUE, weightTiers |-> SortByMaxWeight(ed.weightTiers)]
              @@ baseData(ed, time, random)
         ELSE [useStepPricing |-> FALSE] @@ baseData(ed, time, random)
    ELSE baseData(ed, time, random)

(* rules.findIndex(r => r.id === id), 0 for -1 *)
findIndex(list, id) ==
    IF \E i \in 1..Len(list) : list[i].id = id
    THEN CHOOSE i \in 1..Len(list) :
            /\ list[i].id = id
            /\ \A j \in 1..(i - 1) : list[j].id # id
    ELSE 0

(* POST /api/rules, addLocalRule *)
addRule(list, r) == Append(list, r)

(* PUT /api/rules/:id, updateLocalRule: the list is left as it is when no  *)
(* rule has the id                                                         *)
updateRule(list, r) ==
    LET index == findIndex(list, r.id)
    IN IF index = 0 THEN list ELSE [list EXCEPT ![index] = r]

(* DELETE /api/rules/:id, deleteLocalRule *)
deleteRule(list, id) == SelectSeq(list, LAMBDA r : r.id # id)

EditorClosed == [open |-> FALSE]

NoSave == [op |-> "none"]

(* the editor is not in use while rules are only applied to orders *)
EditorUnused ==
    /\ rules = <<>>
    /\ now = 1
    /\ editor = EditorClosed
    /\ saved = NoSave

(* RuleManagement.handleCreate: the editor opens with its defaults *)
HandleCreate ==
    /\ ~editor.open
    /\ Len(rules) < MaxRules
    /\ editor' = [open |-> TRUE, rule |-> Undefined, ruleType |-> "mode1", name |-> <<>>,
                  useStepPricing |-> initialUseStepPricing(Undefined),
                  weightTiers |-> initialWeightTiers(Undefined)]
    /\ UNCHANGED <<rules, now, saved, rule, call, storeVars, shell>>

(* RuleManagement.handleEdit: the editor opens on a rule of the list *)
HandleEdit(i) ==
    /\ ~editor.open
    /\ editor' = [open |-> TRUE, rule |-> rules[i], ruleType |-> rules[i].type,
                  name |-> rules[i].name,
                  useStepPricing |-> initialUseStepPricing(rules[i]),
                  weightTiers |-> initialWeightTiers(rules[i])]
    /\ UNCHANGED <<rules, now, saved, rule, call, storeVars, shell>>

(* the name field's onChange *)
SetName(str) ==
    /\ editor.open
    /\ editor' = [editor EXCEPT !.name = str]
    /\ UNCHANGED <<rules, now, saved, rule, call, storeVars, shell>>

(* the type select's onChange, disabled when a rule is edited *)
SetRuleType(t) ==
    /\ editor.open
    /\ editor.rule = Undefined
    /\ editor' = [editor EXCEPT !.ruleType = t]
    /\ UNCHANGED <<rules, now, saved, rule, call, storeVars, shell>>

(* the step pricing checkbox of a mode1 rule *)
SetUseStepPricing(checked) ==
    /\ editor.open
    /\ editor.ruleType = "mode1"
    /\ editor' = [editor EXCEPT !.useStepPricing = checked]
    /\ UNCHANGED <<rules, now, saved, rule, call, storeVars, shell>>

(* the tier buttons and fields are rendered for a mode1 rule with step     *)
(* pricing on                                                              *)
TiersShown == editor.open /\ editor.ruleType = "mode1" /\ editor.useStepPricing

(* the list is kept to MaxEditorTiers tiers, none above one more kg than   *)
(* the highest default tier                                                *)
MaxEditorWeight == defaultWeightTiers[Len(defaultWeightTiers)].maxWeight + Kg(1)

AddTier ==
    /\ TiersShown
    /\ Len(editor.weightTiers) < MaxEditorTiers
    /\ tiersAfterAdd(editor.weightTiers)[Len(editor.weightTiers) + 1].maxWeight
          <= MaxEditorWeight
    /\ editor' = [editor EXCEPT !.weightTiers = tiersAfterAdd(@)]
    /\ UNCHANGED <<rules, now, saved, rule, call, storeVars, shell>>

RemoveTier(index) ==
    /\ TiersShown
    /\ index <= Len(editor.weightTiers)
    /\ editor' = [editor EXCEPT !.weightTiers = tiersAfterRemove(@, index)]
    /\ UNCHANGED <<rules, now, saved, rule, call, storeVars, shell>>

(* a tier's maxWeight field *)
HandleTierWeightChange(tierIndex, value) ==
    /\ TiersShown
    /\ tierIndex <= Len(editor.weightTiers)
    /\ editor' = [editor EXCEPT !.weightTiers[tierIndex].maxWeight = value]
    /\ UNCHANGED <<rules, now, saved, rule, call, storeVars, shell>>

(* RuleEditor.handleSave, and RuleManagement.handleSave which it calls     *)
(* through onSave                                                          *)
HandleSave(random) ==
    /\ editor.open
    /\ IF Trim(editor.name) = <<>>
       THEN /\ saved' = [op |-> "alert"]
            /\ UNCHANGED <<rules, editor>>
       ELSE LET r == ruleToSave(editor, now, random)
            IN /\ saved' = [op |-> "onSave", rule |-> r,
                            editingRule |-> baseDataOf(editor.rule), at |-> now]
               /\ rules' = IF editor.rule # Undefined
                           THEN updateRule(rules, r)
                           ELSE addRule(rules, r)
               /\ editor' = EditorClosed
    /\ UNCHANGED <<now, rule, call, storeVars, shell>>

(* onCancel *)
HandleCancel ==
    /\ editor.open
    /\ editor' = EditorClosed
    /\ UNCHANGED <<rules, now, saved, rule, call, storeVars, shell>>

(* RuleManagement.handleDelete, confirmed *)
HandleDelete(i) ==
    /\ ~editor.open
    /\ rules' = deleteRule(rules, rules[i].id)
    /\ UNCHANGED <<now, editor, saved, rule, call, storeVars, shell>>

(* time passes: Date.now() does not decrease *)
Tick ==
    /\ now < MaxTime
    /\ now' = now + 1
    /\ UNCHANGED <<rules, editor, saved, rule, call, storeVars, shell>>

----------------------------------------------------------------------------
(* The rule store: the backend servers (server.js, server-prod.js), the    *)
(* storage client with its localStorage fallback (lib/storage.ts).  A      *)
(* stored rule is held by its id and its name.                             *)

RuleIds == {"r1", "r2"}

StoredRules == {[id |-> i, name |-> n] : i \in RuleIds, n \in {"A", "B"}}

(* rules.json and the localStorage item: missing, or a list of rules *)
Missing == [exists |-> FALSE, rules |-> <<>>]

Stored(list) == [exists |-> TRUE, rules |-> list]

(* server.js is run by npm, server-prod.js by the Electron shell *)
ServerKinds == {"dev", "prod"}

(* ensureDataDir of server-prod.js: a missing rules file is written as []  *)
ensureDataDir(f) == IF f.exists THEN f ELSE Stored(<<>>)

(* a JSON response: server.js wraps the list in an object, server-prod.js  *)
(* sends the bare array                                                    *)
Wrapped(status, list) == [status |-> status, body |-> "object", rules |-> list]

Bare(status, list) == [status |-> status, body |-> "array", rules |-> list]

ErrorResponse(status) == [status |-> status, body |-> "error", rules |-> <<>>]

(* the list the handler modifies: the file as it is when the handler runs  *)
rulesRead_atReceive(f, atReceive) == atReceive.rules

rulesRead(f, atReceive) == f.rules

(* GET /api/rules *)
serverGet(kind, f) ==
    IF kind = "dev"
    THEN IF f.exists
         THEN [file |-> f, response |-> Bare(200, f.rules)]
         ELSE [file |-> f, response |-> ErrorResponse(500)]
    ELSE [file |-> ensureDataDir(f), response |-> Bare(200, f.rules)]

(* POST /api/rules: no test of the new rule's id *)
serverPost(kind, f, atReceive, body) ==
    IF kind = "dev"
    THEN IF f.exists
         THEN LET list == Append(rulesRead(f, atReceive), body)
              IN [file |-> Stored(list), response |-> Wrapped(200, list)]
         ELSE [file |-> f, response |-> ErrorResponse(500)]
    ELSE LET list == Append(rulesRead(ensureDataDir(f), atReceive), body)
         IN [file |-> Stored(list), response |-> Bare(201, list)]

(* PUT /api/rules/:id *)
serverPut(kind, f, atReceive, id, body) ==
    IF kind = "dev"
    THEN IF f.exists
         THEN LET list == rulesRead(f, atReceive)
                  index == findIndex(list, id)
              IN IF index = 0
                 THEN [file |-> f, response |-> ErrorResponse(404)]
                 ELSE [file |-> Stored([list EXCEPT ![index] = body]),
                       response |-> Wrapped(200, [list EXCEPT ![index] = body])]
         ELSE [file |-> f, response |-> ErrorResponse(500)]
    ELSE LET list == rulesRead(ensureDataDir(f), atReceive)
             index == findIndex(list, id)
         IN IF index = 0
            THEN [file |-> ensureDataDir(f), response |-> ErrorResponse(404)]
            ELSE [file |-> Stored([list EXCEPT ![index] = body]),
                  response |-> Bare(200, [list EXCEPT ![index] = body])]

(* DELETE /api/rules/:id *)
serverDelete(kind, f, atReceive, id) ==
    IF kind = "dev"
    THEN IF f.exists
         THEN LET list == deleteRule(rulesRead(f, atReceive), id)
              IN [file |-> Stored(list), response |-> Wrapped(200, list)]
         ELSE [file |-> f, response |-> ErrorResponse(500)]
    ELSE LET list == deleteRule(rulesRead(ensureDataDir(f), atReceive), id)
         IN [file |-> Stored(list), response |-> Bare(200, list)]

(* the request handler; atReceive is the file when the request arrived *)
handle(kind, f, atReceive, req) ==
    IF req.method = "GET" THEN serverGet(kind, f)
    ELSE IF req.method = "POST" THEN serverPost(kind, f, atReceive, req.rule)
    ELSE IF req.method = "PUT" THEN serverPut(kind, f, atReceive, req.id, req.rule)
    ELSE serverDelete(kind, f, atReceive, req.id)

(* response.ok *)
ok(response) == response.status >= 200 /\ response.status <= 299

(* a value returned by the storage client: a rule list, or undefined *)
Returned(list) == [defined |-> TRUE, rules |-> list]

ReturnedUndefined == [defined |-> FALSE, rules |-> <<>>]

(* await response.json() of getRules: the array *)
jsonRules(response) ==
    IF response.body = "array" THEN Returned(response.rules) ELSE ReturnedUndefined

(* data.rules of addRule, updateRule, deleteRule: an array has no property *)
(* rules                                                                   *)
dataRules(response) ==
    IF response.body = "object" THEN Returned(response.rules) ELSE ReturnedUndefined

(* getLocalRules, addLocalRule, updateLocalRule, deleteLocalRule: the      *)
(* localStorage item afterwards and the list returned                      *)
getLocalRules(item) == item.rules

addLocalRule(item, r) ==
    [local |-> Stored(addRule(getLocalRules(item), r)),
     result |-> Returned(addRule(getLocalRules(item), r))]

updateLocalRule_upsert(item, r) ==
    IF findIndex(getLocalRules(item), r.id) # 0
    THEN [local |-> Stored(updateRule(getLocalRules(item), r)),
          result |-> Returned(updateRule(getLocalRules(item), r))]
    ELSE addLocalRule(item, r)

updateLocalRule(item, r) ==
    IF findIndex(getLocalRules(item), r.id) # 0
    THEN [local |-> Stored(updateRule(getLocalRules(item), r)),
          result |-> Returned(updateRule(getLocalRules(item), r))]
    ELSE [local |-> item, result |-> Returned(getLocalRules(item))]

deleteLocalRule(item, id) ==
    [local |-> Stored(deleteRule(getLocalRules(item), id)),
     result |-> Returned(deleteRule(getLocalRules(item), id))]

(* the catch branch of the storage client *)
fallback(item, req) ==
    IF req.method = "GET" THEN [local |-> item, result |-> Returned(getLocalRules(item))]
    ELSE IF req.method = "POST" THEN addLocalRule(item, req.rule)
    ELSE IF req.method = "PUT" THEN updateLocalRule(item, req.rule)
    ELSE deleteLocalRule(item, req.id)

(* the try branch once the response is there: what the call returns, or    *)
(* the fallback when the status is no success                              *)
afterResponse(item, req, response) ==
    IF ok(response)
    THEN [local |-> item,
          result |-> IF req.method = "GET" THEN jsonRules(response)
                     ELSE dataRules(response)]
    ELSE fallback(item, req)

(* the requests of getRules, addRule(rule), updateRule(rule) and           *)
(* deleteRule(ruleId)                                                      *)
GetRequest == [method |-> "GET"]

PostRequest(r) == [method |-> "POST", rule |-> r]

PutRequest(r) == [method |-> "PUT", id |-> r.id, rule |-> r]

DeleteRequest(id) == [method |-> "DELETE", id |-> id]

Requests ==
    {GetRequest} \cup {PostRequest(r) : r \in StoredRules}
    \cup {PutRequest(r) : r \in StoredRules} \cup {DeleteRequest(i) : i \in RuleIds}

NoReply == [op |-> "none"]

(* the ids of the rules whose addRule has resolved and that were not       *)
(* deleted since                                                           *)
durableAfter(set, req) ==
    IF req.method = "POST" THEN set \cup {req.rule.id}
    ELSE IF req.method = "DELETE" THEN set \ {req.id}
    ELSE set

StoreUnused ==
    /\ file = Missing
    /\ local = Missing
    /\ server = [kind |-> "dev", up |-> FALSE]
    /\ reply = NoReply
    /\ durable = {}
    /\ requests = {}
    /\ responses = {}

ShellUnused == shell = [running |-> FALSE]

(* one call of the storage client, from fetch to return: through the       *)
(* server when it answers, else through localStorage                       *)
StorageCall(req) ==
    /\ req.method = "POST" =>
          Len(file.rules) < MaxStored /\ Len(local.rules) < MaxStored
    /\ LET answer == handle(server.kind, file, file, req)
           done == IF server.up
                   THEN afterResponse(local, req, answer.response)
                   ELSE fallback(local, req)
       IN /\ file' = IF server.up THEN answer.file ELSE file
          /\ local' = done.local
          /\ reply' = [op |-> req.method, request |-> req, result |-> done.result,
                       answered |-> server.up,
                       status |-> IF server.up THEN answer.response.status ELSE 0,
                       fileBefore |-> file, localBefore |-> local]
          /\ durable' = durableAfter(durable, req)
    /\ UNCHANGED <<server, requests, responses, rule, call, editorVars, shell>>

(* the backend stops answering (fetch rejects), and answers again *)
ServerFails ==
    /\ server.up
    /\ server' = [server EXCEPT !.up = FALSE]
    /\ UNCHANGED <<file, local, reply, durable, requests, responses,
                   rule, call, editorVars, shell>>

ServerRecovers ==
    /\ ~server.up
    /\ server' = [server EXCEPT !.up = TRUE]
    /\ UNCHANGED <<file, local, reply, durable, requests, responses,
                   rule, call, editorVars, shell>>

(* electron/main.js.  serverProcess is the module variable: null, or the   *)
(* child object; child is what has become of the spawned process; window   *)
(* is the one BrowserWindow the shell creates (window.open is denied).     *)
Platforms == {"darwin", "win32", "linux"}

Launched(platform, isPackaged) ==
    [running |-> TRUE, platform |-> platform, isPackaged |-> isPackaged,
     phase |-> "launched", serverProcess |-> "null", child |-> "none",
     settled |-> "pending", window |-> "none", loaded |-> "none"]

(* how the promise of startServer settles: the child printed its start     *)
(* message, the 5 s timer ran out, or spawn reported an error              *)
StartOutcomes == {"message", "timeout", "error"}

(* createWindow: a hidden window that loads the built page or the dev URL *)
createWindow(sh) ==
    [sh EXCEPT !.window = "hidden",
               !.loaded = IF sh.isPackaged THEN "file" ELSE "url"]

(* if (serverProcess) { serverProcess.kill(); serverProcess = null; } *)
killServer(sh) ==
    IF sh.serverProcess # "null"
    THEN [sh EXCEPT !.serverProcess = "null", !.child = "killed"]
    ELSE sh

(* app.whenReady().then: startServer() spawns the child and is awaited *)
WhenReady ==
    /\ shell.phase = "launched"
    /\ shell' = [shell EXCEPT !.phase = "starting", !.serverProcess = "child",
                              !.child = "spawned"]
    /\ UNCHANGED <<rule, call, editorVars, storeVars>>

(* the await of startServer is over, resolved or rejected and caught: the  *)
(* window is created and the activate handler is registered                *)
StartServerSettles(outcome) ==
    /\ shell.phase = "starting"
    /\ shell' = createWindow(
          [shell EXCEPT !.phase = "ready", !.settled = outcome,
                        !.child = IF outcome = "message" THEN "listening"
                                  ELSE IF outcome = "error" THEN "failed"
                                  ELSE "spawned"])
    /\ UNCHANGED <<rule, call, editorVars, storeVars>>

(* the child prints its start message after the timer has run out *)
ServerStarted ==
    /\ shell.phase = "ready"
    /\ shell.child = "spawned"
    /\ shell' = [shell EXCEPT !.child = "listening"]
    /\ UNCHANGED <<rule, call, editorVars, storeVars>>

(* mainWindow.once('ready-to-show', ...) *)
ReadyToShow ==
    /\ shell.phase = "ready"
    /\ shell.window = "hidden"
    /\ shell' = [shell EXCEPT !.window = "shown"]
    /\ UNCHANGED <<rule, call, editorVars, storeVars>>

(* the user closes the window: app.on('window-all-closed', ...) *)
WindowAllClosed ==
    /\ shell.phase = "ready"
    /\ shell.window = "shown"
    /\ shell' = [killServer(shell) EXCEPT
                    !.window = "none",
                    !.phase = IF shell.platform # "darwin" THEN "quitRequested"
                              ELSE "ready"]
    /\ UNCHANGED <<rule, call, editorVars, storeVars>>

(* app.on('activate', ...): macOS, the dock icon is clicked *)
Activate ==
    /\ shell.phase = "ready"
    /\ shell.platform = "darwin"
    /\ shell.window = "none"
    /\ shell' = createWindow(shell)
    /\ UNCHANGED <<rule, call, editorVars, storeVars>>

(* app.on('before-quit', ...): after app.quit(), or the user quits *)
BeforeQuit ==
    /\ shell.phase \in {"starting", "ready", "quitRequested"}
    /\ shell' = [killServer(shell) EXCEPT !.phase = "quitting"]
    /\ UNCHANGED <<rule, call, editorVars, storeVars>>

(* the windows are closed and the app exits *)
Quit ==
    /\ shell.phase = "quitting"
    /\ shell' = [shell EXCEPT !.phase = "quit", !.window = "none"]
    /\ UNCHANGED <<rule, call, editorVars, storeVars>>

(* Calls of the rule context in flight at once.  requests holds the calls  *)
(* on their way to the handler, responses the calls the server has         *)
(* handled, each with its response and whether the client has received it. *)
MaxCalls == 2

(* the rules file when the server has started: server.js writes [] when    *)
(* the file is missing, server-prod.js writes nothing until a request      *)
atStartup(kind) == IF kind = "dev" THEN Stored(<<>>) ELSE Missing

(* the calls the context makes: refreshRules, addRule, updateRule and      *)
(* deleteRule                                                              *)
ContextRequests ==
    {GetRequest} \cup {PostRequest([id |-> i, name |-> "A"]) : i \in RuleIds}
    \cup {PutRequest([id |-> i, name |-> "B"]) : i \in RuleIds}
    \cup {DeleteRequest(i) : i \in RuleIds}

CallsMade == Cardinality(requests) + Cardinality(responses)

(* setRules(newRules) *)
setRules(result) == IF result.defined THEN result.rules ELSE Undefined

(* the context calls the storage client, whose fetch sends the request *)
ContextCall(req) ==
    /\ server.up
    /\ CallsMade < MaxCalls
    /\ requests' = requests \cup
          {[call |-> CallsMade + 1, req |-> req, stage |-> "sent", atReceive |-> Missing]}
    /\ UNCHANGED <<file, local, server, reply, durable, responses,
                   rule, call, editorVars, shell>>

(* the request and its body have arrived: express.json() of server.js,     *)
(* parseBody of server-prod.js                                             *)
ServerReceive(r) ==
    /\ r \in requests
    /\ r.stage = "sent"
    /\ requests' = (requests \ {r}) \cup
          {[r EXCEPT !.stage = "received", !.atReceive = file]}
    /\ UNCHANGED <<file, local, server, reply, durable, responses,
                   rule, call, editorVars, shell>>

(* the route handler runs from its read of the file to the response        *)
(* without yielding: readFileSync, the change, writeFileSync, res.json     *)
ServerHandle(r) ==
    /\ r \in requests
    /\ r.stage = "received"
    /\ LET answer == handle(server.kind, file, r.atReceive, r.req)
       IN /\ file' = answer.file
          /\ responses' = responses \cup
                {[call |-> r.call, req |-> r.req, atReceive |-> r.atReceive,
                  order |-> Cardinality(responses) + 1,
                  response |-> answer.response, delivered |-> FALSE]}
    /\ requests' = requests \ {r}
    /\ UNCHANGED <<local, server, reply, durable, rule, call, editorVars, shell>>

(* the response reaches the client: the storage call returns and the       *)
(* context stores the returned list with setRules                          *)
ContextReceive(r) ==
    /\ r \in responses
    /\ ~r.delivered
    /\ LET done == afterResponse(local, r.req, r.response)
       IN /\ local' = done.local
          /\ rules' = setRules(done.result)
          /\ reply' = [op |-> r.req.method, request |-> r.req, result |-> done.result,
                       answered |-> TRUE, status |-> r.response.status,
                       fileBefore |-> file, localBefore |-> local]
    /\ responses' = (responses \ {r}) \cup {[r EXCEPT !.delivered = TRUE]}
    /\ durable' = durableAfter(durable, r.req)
    /\ UNCHANGED <<file, server, requests, rule, call, now, editor, saved, shell>>

----------------------------------------------------------------------------
(* The calculator in use: a rule is selected, then orders are priced.      *)

NoCall == [op |-> "none"]

Init ==
    /\ rule \in Rules
    /\ call = NoCall
    /\ EditorUnused
    /\ StoreUnused
    /\ ShellUnused

(* QuickQuery's liveResult *)
CalculateFreight(order) ==
    /\ call' = [op |-> "calculateFreight", order |-> order,
                result |-> calculateFreight(rule, order)]
    /\ rule' = ruleAfterFreight(rule, order)
    /\ UNCHANGED <<editorVars, storeVars, shell>>

(* the tier resolver on the rule's tier list *)
GetStepPrice(weight, province) ==
    /\ "weightTiers" \in DOMAIN rule
    /\ call' = [op |-> "getStepPrice", weight |-> weight, tiers |-> rule.weightTiers,
                province |-> province,
                result |-> getStepPrice(weight, rule.weightTiers, province)]
    /\ rule' = [rule EXCEPT !.weightTiers = tiersAfterGetStepPrice(@)]
    /\ UNCHANGED <<editorVars, storeVars, shell>>

(* BatchCalculator's handleCalculate *)
CalculateBatch(orders) ==
    /\ call' = [op |-> "calculateBatch", orders |-> orders,
                result |-> calculateBatch(rule, orders)]
    /\ rule' = ruleAfterBatch(rule, orders)
    /\ UNCHANGED <<editorVars, storeVars, shell>>

Next ==
    \/ \E order \in QueryOrders : CalculateFreight(order)
    \/ \E weight \in Weights, province \in PROVINCES : GetStepPrice(weight, province)

Spec == Init /\ [][Next]_vars

(* Batch calculation *)
InitBatch ==
    /\ rule \in BatchRules
    /\ call = NoCall
    /\ EditorUnused
    /\ StoreUnused
    /\ ShellUnused

NextBatch == \E orders \in OrderLists : CalculateBatch(orders)

SpecBatch == InitBatch /\ [][NextBatch]_vars

(* single queries, resolver calls and batches against one rule *)
AnyRules ==
    {r \in BatchRules :
        \/ r.type = "mode2"
        \/ r.useStepPricing /\ r.overweightFirstPrices = r.continuedWeightPrices}

InitAny ==
    /\ rule \in AnyRules
    /\ call = NoCall
    /\ EditorUnused
    /\ StoreUnused
    /\ ShellUnused

NextAny == Next \/ NextBatch

SpecAny == InitAny /\ [][NextAny]_vars

(* Orders whose destination is outside PROVINCES ('台湾' is no member; *)
(* 'constructor' is no member either), next to ordinary ones               *)
ForeignDestinations == {"Taiwan", "constructor"}

ForeignQueryOrders ==
    {[waybillNo |-> "QUERY", destination |-> d, weight |-> w] :
        d \in ForeignDestinations, w \in {5, 41}}

ForeignBatchOrders ==
    { [waybillNo |-> "W1", destination |-> "Beijing", weight |-> 5],
      [waybillNo |-> "W3", destination |-> "Beijing", weight |-> 41],
      [waybillNo |-> "W4", destination |-> "Taiwan", weight |-> 5],
      [waybillNo |-> "W5", destination |-> "constructor", weight |-> 41] }

ForeignOrderLists == UNION {[1..k -> ForeignBatchOrders] : k \in 0..MaxOrders}

NextForeign ==
    \/ \E order \in ForeignQueryOrders : CalculateFreight(order)
    \/ \E orders \in ForeignOrderLists : CalculateBatch(orders)

SpecForeign == InitAny /\ [][NextForeign]_vars

(* Rule management: no rule is saved yet, none is selected for pricing *)
InitEditor ==
    /\ rule = Undefined
    /\ call = NoCall
    /\ EditorUnused
    /\ StoreUnused
    /\ ShellUnused

NextEditor ==
    \/ HandleCreate
    \/ \E i \in 1..Len(rules) : HandleEdit(i)
    \/ \E str \in Names : SetName(str)
    \/ \E t \in RuleTypes : SetRuleType(t)
    \/ \E random \in RandomSuffixes : HandleSave(random)
    \/ HandleCancel
    \/ \E i \in 1..Len(rules) : HandleDelete(i)
    \/ Tick

SpecEditor == InitEditor /\ [][NextEditor]_vars

----------------------------------------------------------------------------
(* Order files (lib/fileParser.ts).  A cell is the sequence of its         *)
(* characters.  The characters of the names are written in Latin letters:  *)
(* "bei" "jing" is '北京', "shang" "hai" is '上海', "sheng" is '省', "shi"  *)
(* is '市', "zi" "zhi" "qu" is '自治区', "zhuang" "zu" is '壮族', "hui"      *)
(* "zu" is '回族', "wei" "wu" "er" is '维吾尔'.                              *)

(* PROVINCE_LIST, in the order of the list *)
PROVINCE_LIST == << <<"bei", "jing">>, <<"shang", "hai">> >>

(* the member of PROVINCES a name of PROVINCE_LIST stands for *)
ProvinceOf(name) == IF name = <<"bei", "jing">> THEN "Beijing" ELSE "Shanghai"

(* Array.prototype.includes on PROVINCE_LIST *)
IsProvince(str) == \E i \in 1..Len(PROVINCE_LIST) : PROVINCE_LIST[i] = str

(* String.prototype.includes: part occurs in str; the empty string occurs  *)
(* in every string                                                         *)
includes(str, part) ==
    \E i \in 0..(Len(str) - Len(part)) : SubSeq(str, i + 1, i + Len(part)) = part

(* str.replace(/suffix$/, '') *)
RemoveSuffix(str, suffix) ==
    IF /\ Len(str) >= Len(suffix)
       /\ SubSeq(str, Len(str) - Len(suffix) + 1, Len(str)) = suffix
    THEN SubSeq(str, 1, Len(str) - Len(suffix))
    ELSE str

(* the six replacements, in the order of the code *)
cleanedName(trimmed) ==
    RemoveSuffix(RemoveSuffix(RemoveSuffix(RemoveSuffix(RemoveSuffix(RemoveSuffix(
        trimmed, <<"sheng">>), <<"shi">>), <<"zi", "zhi", "qu">>),
        <<"zhuang", "zu">>), <<"hui", "zu">>), <<"wei", "wu", "er">>)

(* the first province of the list that contains, or is contained in, the   *)
(* cleaned name                                                            *)
FuzzyMatches(cleaned) ==
    {i \in 1..Len(PROVINCE_LIST) :
        includes(PROVINCE_LIST[i], cleaned) \/ includes(cleaned, PROVINCE_LIST[i])}

fuzzyMatch(cleaned) ==
    IF FuzzyMatches(cleaned) # {}
    THEN [null |-> FALSE,
          province |-> PROVINCE_LIST[CHOOSE i \in FuzzyMatches(cleaned) :
                                        \A j \in FuzzyMatches(cleaned) : i <= j]]
    ELSE [null |-> TRUE, province |-> <<>>]

(* normalizeProvince: a name of PROVINCE_LIST, or null *)
normalizeProvince(input) ==
    LET trimmed == Trim(input)
        cleaned == cleanedName(trimmed)
    IN IF IsProvince(trimmed) THEN [null |-> FALSE, province |-> trimmed]
       ELSE IF IsProvince(cleaned) THEN [null |-> FALSE, province |-> cleaned]
       ELSE fuzzyMatch(cleaned)

(* parseFloat, in tenths: blanks are skipped, then a sign, digits, a point *)
(* and digits are read, and whatever follows is ignored; NaN when no digit *)
(* was read.  The cells used have at most one digit after the point.       *)
DigitChars == {"0", "2", "5"}

DigitValue(c) == IF c = "0" THEN 0 ELSE IF c = "2" THEN 2 ELSE 5

RECURSIVE DigitPrefix(_)
DigitPrefix(str) ==
    IF str # <<>> /\ Head(str) \in DigitChars
    THEN <<Head(str)>> \o DigitPrefix(Tail(str))
    ELSE <<>>

RECURSIVE DecimalValue(_)
DecimalValue(digits) ==
    IF digits = <<>> THEN 0
    ELSE DecimalValue(SubSeq(digits, 1, Len(digits) - 1)) * 10
         + DigitValue(digits[Len(digits)])

NaN == [nan |-> TRUE, value |-> 0]

parseFloat(str) ==
    LET start == TrimStart(str)
        negative == start # <<>> /\ Head(start) = "-"
        unsigned == IF negative THEN Tail(start) ELSE start
        whole == DigitPrefix(unsigned)
        rest == SubSeq(unsigned, Len(whole) + 1, Len(unsigned))
        fraction == IF rest # <<>> /\ Head(rest) = "."
                    THEN DigitPrefix(Tail(rest)) ELSE <<>>
        tenths == Kg(DecimalValue(whole))
                  + (IF fraction = <<>> THEN 0 ELSE DigitValue(fraction[1]))
    IN IF whole = <<>> /\ fraction = <<>> THEN NaN
       ELSE [nan |-> FALSE, value |-> IF negative THEN -tenths ELSE tenths]

(* parseFloat(rawWeight) || 0 *)
weightOf(rawWeight) ==
    LET parsed == parseFloat(rawWeight)
    IN IF parsed.nan THEN 0 ELSE parsed.value

(* whether a weight passes the weight <= 0 test *)
validWeight_nonNegative(weight) == weight >= 0

validWeight(weight) == weight > 0

(* the outcome of a parse: the orders, or the rejection with its message *)
ParsedOrders(orders) == [rejected |-> FALSE, orders |-> orders, error |-> <<>>]

Rejected(error) == [rejected |-> TRUE, orders |-> <<>>, error |-> error]

ErrNoColumn == "column not found"
ErrProvince == "cannot recognize province"
ErrWeight == "invalid weight"
ErrEmpty == "Excel file is empty"

(* the body of the map callback for the row at index (from 0): the order   *)
(* or the error thrown                                                     *)
rowOrder(row, index, rawWeight) ==
    LET waybillNo == IF Trim(row.waybill) # <<>> THEN Trim(row.waybill)
                     ELSE <<"unknown", index>>
        rawProvince == Trim(row.destination)
        destination == normalizeProvince(rawProvince)
        weight == weightOf(rawWeight)
    IN IF destination.null
       THEN Rejected(<<ErrProvince, index + 2, rawProvince>>)
       ELSE IF ~validWeight(weight)
            THEN Rejected(<<ErrWeight, index + 2, rawWeight>>)
            ELSE ParsedOrders(<<[waybillNo |-> waybillNo,
                             destination |-> ProvinceOf(destination.province),
                             weight |-> weight]>>)

(* rows.map(...): the first row that throws rejects the whole parse *)
RECURSIVE mapRows(_, _, _)
mapRows(rows, index, emptyWeight) ==
    IF index >= Len(rows) THEN ParsedOrders(<<>>)
    ELSE LET row == rows[index + 1]
             rawWeight == IF Trim(row.weight) # <<>> THEN Trim(row.weight)
                          ELSE emptyWeight
             first == rowOrder(row, index, rawWeight)
         IN IF first.rejected THEN first
            ELSE LET others == mapRows(rows, index + 1, emptyWeight)
                 IN IF others.rejected THEN others
                    ELSE ParsedOrders(first.orders \o others.orders)

(* findColumn for the three columns: null when a column has no header *)
ColumnKinds == {"waybill", "destination", "weight"}

columnsFound(headers) == ColumnKinds \subseteq headers

(* row[weightCol]?.trim() || '0' *)
parseCSV(sheet) ==
    IF ~columnsFound(sheet.headers) THEN Rejected(<<ErrNoColumn>>)
    ELSE mapRows(sheet.rows, 0, <<"0">>)

(* String(row[weightCol] ?? '0').trim(): an empty cell has no key in the   *)
(* row, a cell of blanks trims to ''                                       *)
parseExcel(sheet) ==
    IF Len(sheet.rows) = 0 THEN Rejected(<<ErrEmpty>>)
    ELSE IF ~columnsFound(sheet.headers) THEN Rejected(<<ErrNoColumn>>)
    ELSE mapRows(sheet.rows, 0, <<"0">>)

(* cells of the three columns *)
WaybillCells == {<<>>, <<"W">>}

DestinationCells ==
    { <<>>, <<"sheng">>, <<"shi">>,
      <<"bei", "jing">>, <<" ", "bei", "jing", "shi">>, <<"shang", "hai", "shi">>,
      <<"jing">>, <<"tai", "wan">>, <<"shang", "hai", "shi", "pu", "dong">> }

WeightCells ==
    { <<>>, <<"0">>, <<"2">>, <<"-", "2">>, <<"k", "g">>, <<"2", "k", "g">>,
      <<"0", ".", "5">>, <<" ", "2", "5">> }

(* rows: every destination cell with a good weight, every weight cell with *)
(* a good destination                                                      *)
SheetRows ==
    {[waybill |-> <<"W">>, destination |-> d, weight |-> <<"2">>] : d \in DestinationCells}
    \cup {[waybill |-> w, destination |-> <<"bei", "jing">>, weight |-> x] :
            w \in WaybillCells, x \in WeightCells}

Sheets ==
    {[headers |-> h, rows |-> rows] :
        h \in {ColumnKinds, ColumnKinds \ {"weight"}},
        rows \in UNION {[1..k -> SheetRows] : k \in 0..MaxRows}}

(* BatchCalculator's file upload: a file has been chosen, parseOrderFile   *)
(* parses it as .csv or as .xlsx                                           *)
InitParse ==
    /\ rule = Undefined
    /\ call \in {[op |-> "upload", sheet |-> sheet] : sheet \in Sheets}
    /\ EditorUnused
    /\ StoreUnused
    /\ ShellUnused

ParseCSV ==
    /\ call.op = "upload"
    /\ call' = [op |-> "parseCSV", sheet |-> call.sheet, result |-> parseCSV(call.sheet)]
    /\ UNCHANGED <<rule, editorVars, storeVars, shell>>

ParseExcel ==
    /\ call.op = "upload"
    /\ call' = [op |-> "parseExcel", sheet |-> call.sheet,
                result |-> parseExcel(call.sheet)]
    /\ UNCHANGED <<rule, editorVars, storeVars, shell>>

NextParse == ParseCSV \/ ParseExcel

SpecParse == InitParse /\ [][NextParse]_vars

(* The storage client against either server: server.js has written its    *)
(* rules file at startup, server-prod.js writes it on the first request    *)
InitStore ==
    /\ rule = Undefined
    /\ call = NoCall
    /\ EditorUnused
    /\ ShellUnused
    /\ server \in [kind : ServerKinds, up : BOOLEAN]
    /\ file = atStartup(server.kind)
    /\ local = Missing
    /\ reply = NoReply
    /\ durable = {}
    /\ requests = {}
    /\ responses = {}

NextStore ==
    \/ \E req \in Requests : StorageCall(req)
    \/ ServerFails
    \/ ServerRecovers

SpecStore == InitStore /\ [][NextStore]_vars

(* The Electron shell from launch to quit *)
InitShell ==
    /\ rule = Undefined
    /\ call = NoCall
    /\ EditorUnused
    /\ StoreUnused
    /\ shell \in {Launched(platform, isPackaged) :
                     platform \in Platforms, isPackaged \in BOOLEAN}

NextShell ==
    \/ WhenReady
    \/ \E outcome \in StartOutcomes : StartServerSettles(outcome)
    \/ ServerStarted
    \/ ReadyToShow
    \/ WindowAllClosed
    \/ Activate
    \/ BeforeQuit
    \/ Quit

SpecShell == InitShell /\ [][NextShell]_vars

(* The rule context against a running server, several calls in flight *)
InitAsync ==
    /\ rule = Undefined
    /\ call = NoCall
    /\ EditorUnused
    /\ ShellUnused
    /\ server \in [kind : ServerKinds, up : {TRUE}]
    /\ file = atStartup(server.kind)
    /\ local = Missing
    /\ reply = NoReply
    /\ durable = {}
    /\ requests = {}
    /\ responses = {}

NextAsync ==
    \/ \E req \in ContextRequests : ContextCall(req)
    \/ \E r \in requests : ServerReceive(r)
    \/ \E r \in requests : ServerHandle(r)
    \/ \E r \in responses : ContextReceive(r)

SpecAsync == InitAsync /\ [][NextAsync]_vars

(* Editing the tiers of a rule: the editor has been opened by handleCreate *)
TierWeightInputs == {20}

InitTiers ==
    /\ rule = Undefined
    /\ call = NoCall
    /\ rules = <<>>
    /\ now = 1
    /\ editor = [open |-> TRUE, rule |-> Undefined, ruleType |-> "mode1", name |-> <<>>,
                 useStepPricing |-> initialUseStepPricing(Undefined),
                 weightTiers |-> initialWeightTiers(Undefined)]
    /\ saved = NoSave
    /\ StoreUnused
    /\ ShellUnused

NextTiers ==
    \/ \E i \in 1..Len(rules) : HandleEdit(i)
    \/ SetName(<<"A">>)
    \/ \E checked \in BOOLEAN : SetUseStepPricing(checked)
    \/ AddTier
    \/ \E index \in 1..MaxEditorTiers : RemoveTier(index)
    \/ \E tierIndex \in 1..MaxEditorTiers, value \in TierWeightInputs :
          HandleTierWeightChange(tierIndex, value)
    \/ HandleSave("x")

SpecTiers == InitTiers /\ [][NextTiers]_vars

----------------------------------------------------------------------------
(* Properties of the batch aggregator, checked under SpecBatch             *)

IsBatch == call.op = "calculateBatch"

RECURSIVE SumOver(_, _)
SumOver(results, idx) ==
    IF idx = {} THEN 0
    ELSE LET i == CHOOSE j \in idx : TRUE
         IN results[i].price + SumOver(results, idx \ {i})

NoErrorIdx(results) == {i \in 1..Len(results) : results[i].error = NoError}

(* C1: calculateBatch returns successCount + errorCount = totalOrders =    *)
(* length(results) = length(orders), and totalPrice is the sum of price    *)
(* over exactly the results that carry no error.                           *)
C1_BatchTotals ==
    IsBatch =>
        LET b == call.result
        IN /\ b.successCount + b.errorCount = b.totalOrders
           /\ b.totalOrders = Len(b.results)
           /\ Len(b.results) = Len(call.orders)
           /\ b.successCount = Cardinality(NoErrorIdx(b.results))
           /\ b.totalPrice = SumOver(b.results, NoErrorIdx(b.results))

(* a batch with an error, a free success and a priced success *)
C1_Witness ==
    /\ IsBatch
    /\ call.result.errorCount >= 1
    /\ call.result.totalPrice > 0
    /\ \E i \in NoErrorIdx(call.result.results) : call.result.results[i].price = 0

(* C2: calculateBatch is an order-preserving map without short-circuit:    *)
(* results[i] is calculateFreight(rule, orders[i]) for every index i, with *)
(* the waybill number, destination and original weight of orders[i],       *)
(* whatever the other orders produced.                                     *)
C2_BatchIsMap ==
    IsBatch =>
        /\ Len(call.result.results) = Len(call.orders)
        /\ \A i \in 1..Len(call.orders) :
            LET res == call.result.results[i]
                order == call.orders[i]
            IN /\ res = calculateFreight(rule, order)
               /\ res.waybillNo = order.waybillNo
               /\ res.destination = order.destination
               /\ res.originalWeight = order.weight

(* an error result followed by a priced one, followed by another error *)
C2_Witness ==
    /\ IsBatch
    /\ \E i, j, k \in 1..Len(call.orders) :
        /\ i < j /\ j < k
        /\ call.result.results[i].error # NoError
        /\ call.result.results[j].error = NoError
        /\ call.result.results[j].price > 0
        /\ call.result.results[k].error # NoError

----------------------------------------------------------------------------
(* Properties of calculateFreight, checked under Spec                      *)

IsFreight == call.op = "calculateFreight"

Has(map, province) == province \in DOMAIN map

(* ceiling of a weight in whole kg: the least k with k kg >= the weight *)
CeilingKg(tenths) ==
    CHOOSE k \in -1..10 : Kg(k) >= tenths /\ \A j \in -1..10 : Kg(j) >= tenths => k <= j

(* C3: every result without error has                                      *)
(* price = baseFee + continuedFee + areaCharge, in both rule variants and  *)
(* both weight regimes.                                                    *)
C3_PriceIsSum ==
    IsFreight /\ call.result.error = NoError =>
        LET b == call.result.breakdown
        IN call.result.price = b.baseFee + b.continuedFee + b.areaCharge

(* an over-threshold mode1 result with all three components non-zero *)
C3_Witness ==
    /\ IsFreight
    /\ rule.type = "mode1"
    /\ call.order.weight > rule.firstWeightThreshold
    /\ call.result.error = NoError
    /\ call.result.breakdown.baseFee > 0
    /\ call.result.breakdown.continuedFee > 0
    /\ call.result.breakdown.areaCharge > 0

(* C4: a result with error set has price 0 and a zero breakdown, even when *)
(* the rule has a non-zero area charge for the destination, and its        *)
(* originalWeight is the order's weight.                                   *)
C4_ErrorIsZero ==
    IsFreight /\ call.result.error # NoError =>
        /\ call.result.price = 0
        /\ call.result.breakdown = [baseFee |-> 0, continuedFee |-> 0, areaCharge |-> 0]
        /\ call.result.originalWeight = call.order.weight

(* an error result under a rule with a non-zero area charge there *)
C4_Witness ==
    /\ IsFreight
    /\ call.result.error # NoError
    /\ Has(rule.areaCharges, call.order.destination)
    /\ rule.areaCharges[call.order.destination] > 0

IsMode1 == IsFreight /\ rule.type = "mode1"

IsMode2 == IsFreight /\ rule.type = "mode2"

(* every table the over-threshold regime could be configured with *)
OverTables == {PriceTable(b, sh) : b \in PriceChoices, sh \in ShanghaiChoices}

(* C5: under a mode1 rule an order whose weight equals                     *)
(* firstWeightThreshold is priced in the at-or-under regime:               *)
(* continuedFee = 0, the billing weight is the order weight unrounded, and *)
(* overweightFirstPrices / continuedWeightPrices are not used (the result  *)
(* is the same whatever they hold, and no error names them).               *)
C5_ThresholdInclusive ==
    IsMode1 /\ call.order.weight = rule.firstWeightThreshold =>
        /\ call.result.breakdown.continuedFee = 0
        /\ call.result.weight = call.order.weight
        /\ call.result.error \in
              {NoError, ErrorMessage(call.order.destination, ErrStepPrice),
               ErrorMessage(call.order.destination, ErrFirstPrice)}
        /\ \A over \in OverTables, cont \in OverTables :
              calculateFreight([rule EXCEPT !.overweightFirstPrices = over,
                                            !.continuedWeightPrices = cont],
                               call.order) = call.result

(* a 3 kg order at a 3 kg threshold, priced, while the over-threshold      *)
(* tables hold non-zero prices for the destination                         *)
C5_Witness ==
    /\ IsMode1
    /\ call.order.weight = rule.firstWeightThreshold
    /\ call.order.weight = 30
    /\ call.result.error = NoError
    /\ call.result.breakdown.baseFee > 0
    /\ Has(rule.overweightFirstPrices, call.order.destination)
    /\ Has(rule.continuedWeightPrices, call.order.destination)
    /\ rule.continuedWeightPrices[call.order.destination] > 0

(* C6: under a mode1 rule, for weight > firstWeightThreshold with both an  *)
(* overweight first price and a continued price for the destination:       *)
(* baseFee = overweightFirstPrices[destination],                           *)
(* continuedKg = ceiling(weight - 1),                                      *)
(* continuedFee = continuedKg * continuedWeightPrices[destination],        *)
(* billing weight = 1 + continuedKg; continuedKg = 1 for weights in (1, 2] *)
(* and 4.1 kg gives continuedKg 4, billing weight 5.                       *)
C6_OverThreshold ==
    /\ IsMode1
    /\ call.order.weight > rule.firstWeightThreshold
    /\ Has(rule.overweightFirstPrices, call.order.destination)
    /\ Has(rule.continuedWeightPrices, call.order.destination)
    =>
        LET d == call.order.destination
            continuedKg == CeilingKg(call.order.weight - Kg(1))
        IN /\ call.result.error = NoError
           /\ call.result.breakdown.baseFee = rule.overweightFirstPrices[d]
           /\ call.result.breakdown.continuedFee = continuedKg * rule.continuedWeightPrices[d]
           /\ call.result.weight = Kg(1 + continuedKg)
           /\ (Kg(1) < call.order.weight /\ call.order.weight <= Kg(2)) => continuedKg = 1
           /\ call.order.weight = 41 =>
                /\ call.result.weight = Kg(5)
                /\ call.result.breakdown.continuedFee = 4 * rule.continuedWeightPrices[d]

(* 4.1 kg over the threshold, with a non-zero continued price *)
C6_Witness ==
    /\ IsMode1
    /\ call.order.weight = 41
    /\ call.result.error = NoError
    /\ call.result.weight = Kg(5)
    /\ call.result.breakdown.continuedFee = 8
    /\ call.result.breakdown.baseFee = 2

(* C7: under a mode2 rule, when the destination has a fixed price and a    *)
(* weight rate: billing weight = ceiling(weight) (0.1 and 0.5 bill as 1),  *)
(* baseFee = fixedPrices[destination],                                     *)
(* continuedFee = billing weight * weightRates[destination], and           *)
(* price = baseFee + continuedFee + areaCharge.                            *)
C7_Mode2 ==
    /\ IsMode2
    /\ Has(rule.fixedPrices, call.order.destination)
    /\ Has(rule.weightRates, call.order.destination)
    =>
        LET d == call.order.destination
            billingKg == CeilingKg(call.order.weight)
            b == call.result.breakdown
        IN /\ call.result.error = NoError
           /\ call.result.weight = Kg(billingKg)
           /\ call.order.weight \in {1, 5} => call.result.weight = Kg(1)
           /\ b.baseFee = rule.fixedPrices[d]
           /\ b.continuedFee = billingKg * rule.weightRates[d]
           /\ call.result.price = b.baseFee + b.continuedFee + b.areaCharge

(* 0.1 kg billed as 1 kg at a non-zero rate, with an area charge *)
C7_Witness ==
    /\ IsMode2
    /\ call.order.weight = 1
    /\ call.result.error = NoError
    /\ call.result.weight = Kg(1)
    /\ call.result.breakdown.continuedFee = 2
    /\ call.result.breakdown.areaCharge > 0

----------------------------------------------------------------------------
(* Properties of the tier resolver, checked under Spec                     *)

IsStep == call.op = "getStepPrice"

TierSet(tiers) == {tiers[i] : i \in 1..Len(tiers)}

DistinctCeilings(tiers) ==
    \A i, j \in 1..Len(tiers) : i # j => tiers[i].maxWeight # tiers[j].maxWeight

ExceedsAll(weight, tiers) == \A t \in TierSet(tiers) : weight > t.maxWeight

(* the tiers a weight resolves to, read off the set of tiers: those with   *)
(* the smallest ceiling >= weight, or with the largest ceiling when the    *)
(* weight exceeds every ceiling                                            *)
Resolved(weight, tiers) ==
    LET all == TierSet(tiers)
        reach == {t \in all : t.maxWeight >= weight}
    IN IF reach # {}
       THEN {t \in reach : \A u \in reach : t.maxWeight <= u.maxWeight}
       ELSE {t \in all : \A u \in all : u.maxWeight <= t.maxWeight}

PriceOrNull(tier, province) ==
    IF Has(tier.prices, province) THEN Num(tier.prices[province]) ELSE Null

Reorderings(tiers) ==
    {[i \in 1..Len(tiers) |-> tiers[f[i]]] :
        f \in {g \in [1..Len(tiers) -> 1..Len(tiers)] :
                  \A i, j \in 1..Len(tiers) : i # j => g[i] # g[j]}}

(* C8: getStepPrice tolerates unsorted input: for a tier list with         *)
(* pairwise distinct ceilings, in any order, and a weight not above the    *)
(* largest ceiling, it returns the region's price from the tier with the   *)
(* smallest ceiling >= weight (inclusive), so every permutation of the     *)
(* list gives the same result.                                             *)
C8_UnsortedTiers ==
    /\ IsStep
    /\ DistinctCeilings(call.tiers)
    /\ ~ExceedsAll(call.weight, call.tiers)
    =>
        /\ \A t \in Resolved(call.weight, call.tiers) :
              call.result = PriceOrNull(t, call.province)
        /\ \A perm \in Reorderings(call.tiers) :
              getStepPrice(call.weight, perm, call.province) = call.result

(* the lower tier is listed last, the weight sits on its ceiling, and the  *)
(* two tiers hold different prices for the region                          *)
C8_Witness ==
    /\ IsStep
    /\ Len(call.tiers) = 2
    /\ call.tiers[1].maxWeight > call.tiers[2].maxWeight
    /\ call.weight = call.tiers[2].maxWeight
    /\ Has(call.tiers[1].prices, call.province)
    /\ Has(call.tiers[2].prices, call.province)
    /\ call.tiers[1].prices[call.province] # call.tiers[2].prices[call.province]
    /\ call.result = Num(call.tiers[2].prices[call.province])

(* C9: when the weight exceeds every ceiling of a non-empty tier list the  *)
(* resolver uses the price table of the tier with the largest ceiling and  *)
(* yields a price, not an error, provided that tier has a price for the    *)
(* region; calculateFreight does so for every at-or-under-threshold order  *)
(* heavier than all ceilings.                                              *)
C9_ClampToTop ==
    /\ (IsStep /\ call.tiers # <<>> /\ ExceedsAll(call.weight, call.tiers)) =>
          LET top == Resolved(call.weight, call.tiers)
          IN /\ \A t \in top : \A u \in TierSet(call.tiers) : u.maxWeight <= t.maxWeight
             /\ call.result \in {PriceOrNull(t, call.province) : t \in top}
             /\ (\A t \in top : Has(t.prices, call.province)) => ~call.result.null
    /\ (/\ IsMode1
        /\ call.order.weight <= rule.firstWeightThreshold
        /\ usesTiers(rule)
        /\ ExceedsAll(call.order.weight, rule.weightTiers)) =>
          LET top == Resolved(call.order.weight, rule.weightTiers)
          IN (\A t \in top : Has(t.prices, call.order.destination)) =>
                /\ call.result.error = NoError
                /\ call.result.breakdown.baseFee \in
                      {t.prices[call.order.destination] : t \in top}
                /\ call.result.breakdown.continuedFee = 0

(* a 3 kg order under a 3 kg threshold, above the 2 kg top tier, priced    *)
(* from that tier although a lower tier has no price for the region        *)
C9_Witness ==
    /\ IsMode1
    /\ usesTiers(rule)
    /\ call.order.weight = 30
    /\ ExceedsAll(call.order.weight, rule.weightTiers)
    /\ \E t \in TierSet(rule.weightTiers) : ~Has(t.prices, call.order.destination)
    /\ call.result.error = NoError
    /\ call.result.breakdown.baseFee = 2

(* C10: if the tier resolved for the weight has no entry for the region,   *)
(* the resolver signals not-configured and calculateFreight returns the    *)
(* missing-tier-price error, even when other tiers of the rule have a      *)
(* price for that region; the resolver also signals not-configured for an  *)
(* empty tier list.                                                        *)
C10_MissingTierPrice ==
    /\ (IsStep /\ call.tiers = <<>>) => call.result = Null
    /\ (/\ IsStep
        /\ call.tiers # <<>>
        /\ \A t \in Resolved(call.weight, call.tiers) : ~Has(t.prices, call.province))
          => call.result = Null
    /\ (/\ IsMode1
        /\ call.order.weight <= rule.firstWeightThreshold
        /\ usesTiers(rule)
        /\ \A t \in Resolved(call.order.weight, rule.weightTiers) :
              ~Has(t.prices, call.order.destination))
          => /\ call.result.error = ErrorMessage(call.order.destination, ErrStepPrice)
             /\ call.result.price = 0

(* the resolved tier lacks the region while another tier prices it *)
C10_Witness ==
    /\ IsMode1
    /\ usesTiers(rule)
    /\ call.order.weight <= rule.firstWeightThreshold
    /\ \A t \in Resolved(call.order.weight, rule.weightTiers) :
          ~Has(t.prices, call.order.destination)
    /\ \E t \in TierSet(rule.weightTiers) :
          Has(t.prices, call.order.destination) /\ t.prices[call.order.destination] > 0
    /\ call.result.error = ErrorMessage(call.order.destination, ErrStepPrice)

----------------------------------------------------------------------------
(* The two sub-modes of the at-or-under regime, checked under Spec         *)

AtOrUnder == IsMode1 /\ call.order.weight <= rule.firstWeightThreshold

NoTiers(r) == "weightTiers" \notin DOMAIN r \/ r.weightTiers = <<>>

FirstTables == {PriceTable(b, sh) : b \in PriceChoices, sh \in ShanghaiChoices}

(* the flat price of the destination, or the missing-first-weight error *)
PricedFlat ==
    LET d == call.order.destination
    IN IF Has(rule.firstWeightPrices, d)
       THEN /\ call.result.error = NoError
            /\ call.result.breakdown.baseFee = rule.firstWeightPrices[d]
            /\ call.result.breakdown.continuedFee = 0
       ELSE /\ call.result.error = ErrorMessage(d, ErrFirstPrice)
            /\ call.result.price = 0

(* C11 as claimed: with useStepPricing = true and weightTiers absent or    *)
(* empty, an at-or-under-threshold order yields the missing-tier-price     *)
(* error, never a priced result.                                           *)
C11_Original ==
    AtOrUnder /\ rule.useStepPricing /\ NoTiers(rule) =>
        call.result.error = ErrorMessage(call.order.destination, ErrStepPrice)

(* C11 amended: with useStepPricing = true and weightTiers absent or       *)
(* empty, an at-or-under-threshold order is priced flat from               *)
(* firstWeightPrices: a priced result when the destination has an entry,   *)
(* the missing-first-weight-price error when it has none; never the        *)
(* missing-tier-price error.                                               *)
C11_NoTiersFallsBackToFlat ==
    AtOrUnder /\ rule.useStepPricing /\ NoTiers(rule) =>
        /\ PricedFlat
        /\ call.result.error # ErrorMessage(call.order.destination, ErrStepPrice)

(* step pricing on, an empty tier list, and a priced result *)
C11_Witness ==
    /\ AtOrUnder
    /\ rule.useStepPricing
    /\ "weightTiers" \in DOMAIN rule
    /\ rule.weightTiers = <<>>
    /\ call.result.error = NoError
    /\ call.result.breakdown.baseFee = 2

(* C12: for an at-or-under-threshold order under a mode1 rule, flat        *)
(* pricing is used exactly when useStepPricing is false or weightTiers is  *)
(* absent or empty: baseFee = firstWeightPrices[destination],              *)
(* continuedFee = 0, and the missing-first-weight-price error if there is  *)
(* no entry; otherwise firstWeightPrices is not consulted.                 *)
C12_FlatExactlyWhenNoSteps ==
    AtOrUnder =>
        IF ~rule.useStepPricing \/ NoTiers(rule)
        THEN PricedFlat
        ELSE /\ call.result.error \in
                  {NoError, ErrorMessage(call.order.destination, ErrStepPrice)}
             /\ call.result.breakdown.continuedFee = 0
             /\ call.result.error = NoError =>
                  call.result.breakdown.baseFee \in
                      {t.prices[call.order.destination] :
                          t \in {u \in Resolved(call.order.weight, rule.weightTiers) :
                                    Has(u.prices, call.order.destination)}}
             /\ \A first \in FirstTables :
                  calculateFreight([rule EXCEPT !.firstWeightPrices = first],
                                   call.order) = call.result

(* step pricing off although tiers are configured: the flat price is       *)
(* charged where the resolved tier has no price                            *)
C12_Witness ==
    /\ AtOrUnder
    /\ ~rule.useStepPricing
    /\ ~NoTiers(rule)
    /\ \A t \in Resolved(call.order.weight, rule.weightTiers) :
          ~Has(t.prices, call.order.destination)
    /\ call.result.error = NoError
    /\ call.result.breakdown.baseFee = 2

----------------------------------------------------------------------------
(* Order of the configuration checks, area charges and zero prices,        *)
(* checked under Spec                                                      *)

Over == IsMode1 /\ call.order.weight > rule.firstWeightThreshold

ErrorIs(missing) == call.result.error = ErrorMessage(call.order.destination, missing)

(* C13: over the threshold of a mode1 rule a missing                       *)
(* overweightFirstPrices entry is reported before a missing                *)
(* continuedWeightPrices entry: both missing, or only the overweight first *)
(* price missing, names the overweight first price; the continued-weight   *)
(* error appears only when the overweight first price is present and the   *)
(* continued price is missing.                                             *)
C13_OverweightCheckedFirst ==
    Over =>
        LET d == call.order.destination
        IN /\ ~Has(rule.overweightFirstPrices, d) => ErrorIs(ErrOverweightFirstPrice)
           /\ ErrorIs(ErrContinuedPrice) <=>
                (Has(rule.overweightFirstPrices, d) /\ ~Has(rule.continuedWeightPrices, d))
           /\ (Has(rule.overweightFirstPrices, d) /\ Has(rule.continuedWeightPrices, d))
                => call.result.error = NoError

(* both entries missing: the overweight first price is named *)
C13_Witness ==
    /\ Over
    /\ ~Has(rule.overweightFirstPrices, call.order.destination)
    /\ ~Has(rule.continuedWeightPrices, call.order.destination)
    /\ ErrorIs(ErrOverweightFirstPrice)

(* C14: under a mode2 rule a missing fixedPrices entry is reported before  *)
(* a missing weightRates entry: both missing, or only the fixed price      *)
(* missing, names the fixed price; the weight-rate error appears only when *)
(* the fixed price is present and the rate is missing.                     *)
C14_FixedCheckedFirst ==
    IsMode2 =>
        LET d == call.order.destination
        IN /\ ~Has(rule.fixedPrices, d) => ErrorIs(ErrFixedPrice)
           /\ ErrorIs(ErrWeightRate) <=>
                (Has(rule.fixedPrices, d) /\ ~Has(rule.weightRates, d))
           /\ (Has(rule.fixedPrices, d) /\ Has(rule.weightRates, d))
                => call.result.error = NoError

(* both entries missing: the fixed price is named *)
C14_Witness ==
    /\ IsMode2
    /\ ~Has(rule.fixedPrices, call.order.destination)
    /\ ~Has(rule.weightRates, call.order.destination)
    /\ ErrorIs(ErrFixedPrice)

AreaTables == {PriceTable(a, sh) : a \in AreaChoices, sh \in ShanghaiChoices}

(* C15: in both variants and both regimes an absent areaCharges entry is   *)
(* never an error: whether the result carries an error does not depend on  *)
(* areaCharges, the areaCharge of a priced result is the entry or 0 when   *)
(* absent, and it is added unchanged to the price.                         *)
C15_AreaChargeOptional ==
    IsFreight =>
        LET d == call.order.destination
            b == call.result.breakdown
        IN /\ \A area \in AreaTables :
                calculateFreight([rule EXCEPT !.areaCharges = area], call.order).error
                    = call.result.error
           /\ call.result.error = NoError =>
                /\ b.areaCharge = IF Has(rule.areaCharges, d) THEN rule.areaCharges[d] ELSE 0
                /\ call.result.price = b.baseFee + b.continuedFee + b.areaCharge
                /\ \A area \in AreaTables :
                      LET other == calculateFreight([rule EXCEPT !.areaCharges = area],
                                                    call.order)
                      IN /\ other.breakdown.baseFee = b.baseFee
                         /\ other.breakdown.continuedFee = b.continuedFee
                         /\ other.price - call.result.price
                              = other.breakdown.areaCharge - b.areaCharge

(* a priced over-threshold result under a rule with no area charge for the *)
(* destination                                                             *)
C15_Witness ==
    /\ Over
    /\ ~Has(rule.areaCharges, call.order.destination)
    /\ call.result.error = NoError
    /\ call.result.breakdown.areaCharge = 0
    /\ call.result.price > 0

(* the entries the branch taken for the order requires: all configured,    *)
(* or one of them absent                                                   *)
TierEntriesPresent ==
    \A t \in Resolved(call.order.weight, rule.weightTiers) :
        Has(t.prices, call.order.destination)

TierEntriesAbsent ==
    \A t \in Resolved(call.order.weight, rule.weightTiers) :
        ~Has(t.prices, call.order.destination)

RequiredPresent ==
    LET d == call.order.destination
    IN IF rule.type = "mode2"
       THEN Has(rule.fixedPrices, d) /\ Has(rule.weightRates, d)
       ELSE IF call.order.weight > rule.firstWeightThreshold
            THEN Has(rule.overweightFirstPrices, d) /\ Has(rule.continuedWeightPrices, d)
            ELSE IF rule.useStepPricing /\ ~NoTiers(rule)
                 THEN TierEntriesPresent
                 ELSE Has(rule.firstWeightPrices, d)

RequiredAbsent ==
    LET d == call.order.destination
    IN IF rule.type = "mode2"
       THEN ~Has(rule.fixedPrices, d) \/ ~Has(rule.weightRates, d)
       ELSE IF call.order.weight > rule.firstWeightThreshold
            THEN ~Has(rule.overweightFirstPrices, d) \/ ~Has(rule.continuedWeightPrices, d)
            ELSE IF rule.useStepPricing /\ ~NoTiers(rule)
                 THEN TierEntriesAbsent
                 ELSE ~Has(rule.firstWeightPrices, d)

(* the fee components, read off the required entries *)
ComponentsFromEntries ==
    LET d == call.order.destination
        b == call.result.breakdown
    IN IF rule.type = "mode2"
       THEN /\ b.baseFee = rule.fixedPrices[d]
            /\ b.continuedFee = CeilingKg(call.order.weight) * rule.weightRates[d]
       ELSE IF call.order.weight > rule.firstWeightThreshold
            THEN /\ b.baseFee = rule.overweightFirstPrices[d]
                 /\ b.continuedFee = CeilingKg(call.order.weight - Kg(1))
                                       * rule.continuedWeightPrices[d]
            ELSE IF rule.useStepPricing /\ ~NoTiers(rule)
                 THEN /\ b.baseFee \in {t.prices[d] :
                            t \in Resolved(call.order.weight, rule.weightTiers)}
                      /\ b.continuedFee = 0
                 ELSE /\ b.baseFee = rule.firstWeightPrices[d]
                      /\ b.continuedFee = 0

(* C16: a configured price of 0 is distinguished from an absent price in   *)
(* every table the calculator reads: when every required entry is          *)
(* configured, 0 included, the result is a success (counted in             *)
(* successCount) whose components come from the entries, so a 0 entry      *)
(* gives a 0 component; only an absent required entry gives an error.      *)
C16_ZeroIsNotAbsent ==
    IsFreight =>
        /\ RequiredPresent =>
              /\ call.result.error = NoError
              /\ ComponentsFromEntries
              /\ calculateBatch(rule, <<call.order>>).successCount = 1
              /\ calculateBatch(rule, <<call.order>>).errorCount = 0
        /\ RequiredAbsent =>
              /\ call.result.error # NoError
              /\ calculateBatch(rule, <<call.order>>).successCount = 0
        /\ call.result.error # NoError => ~RequiredPresent

(* a tier price of 0 for the destination: a success with baseFee 0 *)
C16_Witness ==
    /\ AtOrUnder
    /\ usesTiers(rule)
    /\ \A t \in Resolved(call.order.weight, rule.weightTiers) :
          Has(t.prices, call.order.destination) /\ t.prices[call.order.destination] = 0
    /\ call.result.error = NoError
    /\ call.result.breakdown.baseFee = 0
    /\ call.result.price = call.result.breakdown.areaCharge

----------------------------------------------------------------------------
(* Purity, checked under SpecAny                                           *)

WithoutTiers(r) == [f \in DOMAIN r \ {"weightTiers"} |-> r[f]]

(* the rule with another at-or-under configuration: a first-weight table,  *)
(* a step switch, and a tier list or none                                  *)
TierAlternatives ==
    {<<>>, UnsortedTiers({}), UnsortedTiers({3}), <<WeightTier(20, {2}, {3})>>,
     <<WeightTier(5, {}, {})>>}

UnderAlternatives(r) ==
    LET base == {[WithoutTiers(r) EXCEPT !.firstWeightPrices = first,
                                         !.useStepPricing = step] :
                    first \in FirstTables, step \in BOOLEAN}
    IN base \cup {WithTiers(b, tiers) : b \in base, tiers \in TierAlternatives}

(* the rule with another over-threshold configuration *)
OverAlternatives(r) ==
    {[r EXCEPT !.overweightFirstPrices = over, !.continuedWeightPrices = cont] :
        over \in OverTables, cont \in OverTables}

(* C19: the two regimes of a mode1 rule read disjoint configuration.  The  *)
(* result of an over-threshold order is the same whatever                  *)
(* firstWeightPrices, weightTiers and useStepPricing hold, and its error   *)
(* is never the missing first-weight or missing tier price; the result of  *)
(* an at-or-under-threshold order is the same whatever                     *)
(* overweightFirstPrices and continuedWeightPrices hold.                   *)
C19_RegimesReadDisjointConfiguration ==
    /\ Over =>
          /\ ~ErrorIs(ErrFirstPrice)
          /\ ~ErrorIs(ErrStepPrice)
          /\ \A r \in UnderAlternatives(rule) :
                calculateFreight(r, call.order) = call.result
    /\ AtOrUnder =>
          \A r \in OverAlternatives(rule) :
              calculateFreight(r, call.order) = call.result

(* an over-threshold order priced although the rule has step pricing on    *)
(* with a tier lacking the destination and no first-weight price for it    *)
C19_Witness ==
    /\ Over
    /\ call.result.error = NoError
    /\ call.result.price > 0
    /\ rule.useStepPricing
    /\ ~Has(rule.firstWeightPrices, call.order.destination)
    /\ "weightTiers" \in DOMAIN rule
    /\ \E i \in 1..Len(rule.weightTiers) :
          ~Has(rule.weightTiers[i].prices, call.order.destination)

----------------------------------------------------------------------------
(* Destinations outside the enumeration, checked under SpecForeign         *)

RemoveAt(seq, i) == SubSeq(seq, 1, i - 1) \o SubSeq(seq, i + 1, Len(seq))

(* C18: an order whose destination is no member of PROVINCES produces an   *)
(* error result for that order only, under both rule variants;             *)
(* calculateBatch does not fail and the results of the other orders are    *)
(* the same as if that order were not present.                             *)
C18_ForeignDestinationIsError ==
    /\ (IsFreight /\ call.order.destination \notin PROVINCES) =>
          call.result.error # NoError
    /\ IsBatch =>
          \A i \in 1..Len(call.orders) :
              call.orders[i].destination \notin PROVINCES =>
                  /\ call.result.results[i].error # NoError
                  /\ calculateBatch(rule, RemoveAt(call.orders, i)).results
                        = RemoveAt(call.result.results, i)

----------------------------------------------------------------------------
(* Rule editor saves, checked under SpecEditor                             *)

Emitted == saved.op = "onSave"

BlankName == editor.open /\ Trim(editor.name) = <<>>

(* C20: across any sequence of create and edit saves every saved rule has  *)
(* updatedAt >= createdAt; a save of an edit emits the edited rule's id    *)
(* and createdAt with updatedAt set to the time of the save; and while the *)
(* name is empty or only blanks no step emits a rule or changes the list   *)
(* (a save then only alerts).                                              *)
C20_EditorSaves ==
    /\ [](/\ \A i \in 1..Len(rules) : rules[i].updatedAt >= rules[i].createdAt
          /\ Emitted =>
                /\ saved.rule.updatedAt = saved.at
                /\ saved.rule.updatedAt >= saved.rule.createdAt
                /\ saved.editingRule # Undefined =>
                      /\ saved.rule.id = saved.editingRule.id
                      /\ saved.rule.createdAt = saved.editingRule.createdAt)
    /\ [][BlankName => /\ rules' = rules
                       /\ saved' # saved => saved'.op = "alert"]_vars

(* an edit saved later than the rule was created, now in the list with its *)
(* old createdAt and the new updatedAt                                     *)
C20_Witness ==
    /\ Emitted
    /\ saved.editingRule # Undefined
    /\ saved.at > saved.editingRule.updatedAt
    /\ \E i \in 1..Len(rules) :
          /\ rules[i] = saved.rule
          /\ rules[i].createdAt < rules[i].updatedAt

----------------------------------------------------------------------------
(* The editor's tier list, checked under SpecTiers                         *)

(* C21: while the editor is open its tier list holds at least one tier,    *)
(* whatever addTier, removeTier and tier edits were made, and every rule   *)
(* emitted or stored with useStepPricing = true carries a non-empty        *)
(* weightTiers list.                                                       *)
C21_TierListNeverEmpty ==
    /\ editor.open => Len(editor.weightTiers) >= 1
    /\ \A i \in 1..Len(rules) :
          (rules[i].type = "mode1" /\ rules[i].useStepPricing) =>
              /\ "weightTiers" \in DOMAIN rules[i]
              /\ Len(rules[i].weightTiers) >= 1
    /\ (Emitted /\ saved.rule.type = "mode1" /\ saved.rule.useStepPricing) =>
          /\ "weightTiers" \in DOMAIN saved.rule
          /\ Len(saved.rule.weightTiers) >= 1

(* a stored step-priced rule whose tiers were removed down to one *)
C21_Witness ==
    /\ Emitted
    /\ saved.rule.type = "mode1"
    /\ saved.rule.useStepPricing
    /\ Len(saved.rule.weightTiers) = 1
    /\ \E i \in 1..Len(rules) : rules[i] = saved.rule

----------------------------------------------------------------------------
(* The rule store, checked under SpecStore                                 *)

UniqueIds(list) ==
    \A i \in 1..Len(list), j \in 1..Len(list) : i # j => list[i].id # list[j].id

(* C22: after any sequence of add, update and delete operations, through   *)
(* the server or through the localStorage fallback, no two rules of a      *)
(* store have the same id.                                                 *)
C22_StoredIdsUnique == UniqueIds(file.rules) /\ UniqueIds(local.rules)

----------------------------------------------------------------------------
(* Order files, checked under SpecParse                                    *)

IsParse == call.op \in {"parseCSV", "parseExcel"}

(* a destination cell no region is recognized in; a weight cell that reads *)
(* as no number or as a number that is not positive                        *)
Unrecognized(cell) == normalizeProvince(cell).null

NoPositiveNumber(cell) ==
    LET parsed == parseFloat(IF Trim(cell) = <<>> THEN <<"0">> ELSE cell)
    IN parsed.nan \/ parsed.value <= 0

BadRow(row) == Unrecognized(row.destination) \/ NoPositiveNumber(row.weight)

(* a weight cell that is a number from its first to its last character:   *)
(* a sign, digits, a point and digits, with at least one digit             *)
NumericCell(cell) ==
    LET str == Trim(cell)
        negative == str # <<>> /\ Head(str) = "-"
        unsigned == IF negative THEN Tail(str) ELSE str
        whole == DigitPrefix(unsigned)
        rest == SubSeq(unsigned, Len(whole) + 1, Len(unsigned))
        fraction == IF rest # <<>> /\ Head(rest) = "."
                    THEN DigitPrefix(Tail(rest)) ELSE <<>>
    IN /\ whole # <<>> \/ fraction # <<>>
       /\ rest = <<>> \/ (Head(rest) = "." /\ Len(rest) = 1 + Len(fraction))

(* C23 as stated: parseCSV and parseExcel either reject the whole file or  *)
(* return orders that all have a destination in PROVINCES and a weight     *)
(* > 0; one row with an unrecognized destination or a non-positive or      *)
(* non-numeric weight makes the whole parse fail.                          *)
C23_Original ==
    IsParse =>
        /\ ~call.result.rejected =>
              \A i \in 1..Len(call.result.orders) :
                  /\ call.result.orders[i].destination \in PROVINCES
                  /\ call.result.orders[i].weight > 0
        /\ (\E i \in 1..Len(call.sheet.rows) :
                \/ Unrecognized(call.sheet.rows[i].destination)
                \/ NoPositiveNumber(call.sheet.rows[i].weight)
                \/ ~NumericCell(call.sheet.rows[i].weight)) =>
              /\ call.result.rejected
              /\ call.result.orders = <<>>

(* C23, with the weight test the parser makes: parseCSV and parseExcel     *)
(* either reject the whole file or return one order per row, each with a   *)
(* destination in PROVINCES and a weight > 0; one row with an unrecognized *)
(* destination, or with a weight cell that does not begin with a number or *)
(* begins with a number that is not positive, makes the whole parse fail   *)
(* with no orders delivered.  A cell that begins with a positive number is *)
(* read as that number whatever follows it.                                *)
C23_ParseAllOrNothing ==
    IsParse =>
        /\ ~call.result.rejected =>
              /\ Len(call.result.orders) = Len(call.sheet.rows)
              /\ \A i \in 1..Len(call.result.orders) :
                    /\ call.result.orders[i].destination \in PROVINCES
                    /\ call.result.orders[i].weight > 0
        /\ (\E i \in 1..Len(call.sheet.rows) : BadRow(call.sheet.rows[i])) =>
              /\ call.result.rejected
              /\ call.result.orders = <<>>

(* a file whose first row is good and whose second row has a zero weight,  *)
(* rejected for row 3 of the file                                          *)
C23_Witness ==
    /\ IsParse
    /\ Len(call.sheet.rows) = 2
    /\ ~BadRow(call.sheet.rows[1])
    /\ parseFloat(call.sheet.rows[2].weight) = [nan |-> FALSE, value |-> 0]
    /\ call.result.rejected
    /\ call.result.error[1] = ErrWeight
    /\ call.result.error[2] = 3

(* C24: a row whose destination cell is empty, or is only a stripped       *)
(* suffix, is assigned no region: normalizeProvince returns null for it    *)
(* and the parse is rejected with the province error for that row.         *)
C24_EmptyDestinationRejected ==
    (IsParse /\ columnsFound(call.sheet.headers)) =>
        \A i \in 1..Len(call.sheet.rows) :
            cleanedName(Trim(call.sheet.rows[i].destination)) = <<>> =>
                /\ normalizeProvince(call.sheet.rows[i].destination).null
                /\ call.result.rejected
                /\ (\A j \in 1..(i - 1) : ~BadRow(call.sheet.rows[j])) =>
                      /\ call.result.error[1] = ErrProvince
                      /\ call.result.error[2] = i + 1

----------------------------------------------------------------------------
(* The storage client against the two servers, checked under SpecStore     *)

IsMutation == reply.op \in {"POST", "PUT", "DELETE"}

Succeeded == reply.answered /\ reply.status >= 200 /\ reply.status <= 299

InList(r, list) == \E i \in 1..Len(list) : list[i] = r

(* C25: with either server, an add, update or delete answered with a       *)
(* success status makes the client's call return the server's complete     *)
(* rule list after the operation; for an add that list contains the new    *)
(* rule.                                                                   *)
C25_ServersInterchangeable ==
    (IsMutation /\ Succeeded) =>
        /\ reply.result = Returned(file.rules)
        /\ reply.op = "POST" => InList(reply.request.rule, reply.result.rules)

(* C26: once addRule(rule) has resolved, every later getRules() returns a  *)
(* list that holds that rule until it is deleted, whatever failures and    *)
(* recoveries of the server lie between the calls.                         *)
C26_AddedRuleStaysListed ==
    reply.op = "GET" =>
        /\ reply.result.defined
        /\ \A id \in durable :
              \E i \in 1..Len(reply.result.rules) : reply.result.rules[i].id = id

IdsOf(list) == {list[i].id : i \in 1..Len(list)}

(* an update, answered by the server, of a rule whose id is in no store *)
UpdateOfUnknown ==
    /\ reply.op = "PUT"
    /\ reply.answered
    /\ reply.request.id \notin IdsOf(reply.fileBefore.rules)
    /\ reply.request.id \notin IdsOf(reply.localBefore.rules)

(* C29 as stated: updating a rule whose id is in no store changes nothing: *)
(* the server answers 404 without writing the rules file, the fallback     *)
(* updateLocalRule does not write localStorage, and no rule is added,      *)
(* replaced or removed in either store.                                    *)
C29_Original ==
    UpdateOfUnknown =>
        /\ reply.status = 404
        /\ file = reply.fileBefore
        /\ local = reply.localBefore

(* C29, with the one write the production server makes: the server answers *)
(* 404 and the rule list of the file is what it was (server.js does not    *)
(* write the file; server-prod.js writes a missing file as the empty list  *)
(* and leaves an existing one alone), localStorage is not written, and the *)
(* client returns the local list.                                          *)
C29_UnknownUpdateChangesNoRule ==
    UpdateOfUnknown =>
        /\ reply.status = 404
        /\ file.rules = reply.fileBefore.rules
        /\ reply.fileBefore.exists => file = reply.fileBefore
        /\ server.kind = "dev" => file = reply.fileBefore
        /\ local = reply.localBefore
        /\ reply.result = Returned(local.rules)

(* an unknown id while both stores hold another rule *)
C29_Witness ==
    /\ UpdateOfUnknown
    /\ reply.status = 404
    /\ Len(file.rules) > 0
    /\ Len(local.rules) > 0

(* every call made has been handled and its response has reached the client *)
AllCompleted ==
    /\ requests = {}
    /\ responses # {}
    /\ \A r \in responses : r.delivered

(* C27: when several addRule, updateRule and deleteRule calls of the rule  *)
(* context are in flight at once and their responses arrive in any order,  *)
(* then after all of them have completed the context's rules list equals   *)
(* the content of the rule store.                                          *)
C27_ContextShowsStore ==
    AllCompleted => reply.result.defined /\ rules = file.rules

(* the handled request with the given place in the order of handling *)
HandledAt(k) == CHOOSE r \in responses : r.order = k

(* the file after the first k handled requests, each applied as a whole to *)
(* the file its predecessor left                                           *)
RECURSIVE Serial(_)
Serial(k) ==
    IF k = 0 THEN atStartup(server.kind)
    ELSE handle(server.kind, Serial(k - 1), Serial(k - 1), HandledAt(k).req).file

(* the ids added by a handled request and deleted by none *)
AddedOnly ==
    {r.req.rule.id : r \in {x \in responses : x.req.method = "POST"}}
    \ {r.req.id : r \in {x \in responses : x.req.method = "DELETE"}}

(* C28: the server loses no update: requests handled concurrently each     *)
(* read, change and write the rules file as one step, so the file is what  *)
(* the handled requests give one after the other, and every rule added and *)
(* not deleted is stored (two concurrent adds leave both rules).           *)
C28_ServerLosesNoUpdate ==
    /\ file = Serial(Cardinality(responses))
    /\ AddedOnly \subseteq IdsOf(file.rules)
    /\ \A r \in responses : ok(r.response) /\ r.req.method # "GET" =>
          r.response.rules = Serial(r.order).rules

(* two adds, the second arrived before the first was handled, both stored *)
C28_Witness ==
    \E a, b \in responses :
        /\ a.order < b.order
        /\ a.req.method = "POST"
        /\ b.req.method = "POST"
        /\ a.req.rule.id # b.req.rule.id
        /\ a.req.rule.id \notin IdsOf(b.atReceive.rules)
        /\ {a.req.rule.id, b.req.rule.id} \subseteq IdsOf(file.rules)

(* C30: in the Electron shell, whenever a main window is open after        *)
(* startup, the backend server child process started by the app is still   *)
(* running (serverProcess is non-null and not killed), for any sequence of *)
(* window-all-closed, activate and before-quit events on any platform.     *)
C30_WindowHasServer ==
    (shell.phase = "ready" /\ shell.window # "none") =>
        shell.serverProcess # "null" /\ shell.child # "killed"

====
